---- MODULE Spec2Model ----
(***************************************************************************)
(* FasterSite: the query layer (searchImages, the unstable_cache wrapper,  *)
(* the signed-URL cache) and the client prefetch / search components of    *)
(* the faster-site and unsplash-faster applications, as state machines.    *)
(* Each component has its own specification (SpecSearch, SpecCache, ...)   *)
(* over the variables it owns; the other variables keep their initial      *)
(* values.                                                                 *)
(***************************************************************************)
EXTENDS Integers, Sequences, FiniteSets, Bags, TLC

\* ------------------------------------------------------------------ bounds
\* longest search term typed (characters)
MaxTermLen == 4
\* hours of server time followed by the query-cache model
MaxCacheHours == 2
\* requests the server renders at the same time
MaxRequests == 2
\* callback runs one request may start for one key before the model stops it
MaxRuns == 2
\* hours of server time followed by the signed-URL cache model
MaxUrlHours == 49
\* getCachedSecureUrl calls for one key that may await a signature together
MaxSigning == 2
\* metadata requests for one href awaiting a response at the same time
MaxInflight == 2
\* the count of downloads of one image stops at this value
MaxDownloads == 2
\* characters in the search input
MaxTyped == 2
\* keystrokes within 500 ms, i.e. timers pending at the same time
MaxTimers == 2
\* router.push calls counted for one burst
MaxPushes == 2
\* images in a gallery
MaxImages == 22
\* the page and limit parameters of a listing request
MaxPage == 4
MaxLimit == 4

MaxWarmTime == 7

MaxWarmRequests == 2

MaxShort == 2

MaxOver == 2

MaxPad == 2

MaxResults == 3

MaxCategories == 2

MaxPhotos == 2

MaxErrors == 1

MaxAttempts == 3

MaxPageResults == 2

VARIABLES
    \* searchImages: the last call's argument and what it did
    sTerm,        \* the searchTerm argument
    sQueries,     \* the database queries the call issued, in order
    sThrown,      \* the queries among them that threw
    sOutcome,     \* "none" (no call yet), "ok" (resolved), "error" (rejected)
    sRows,        \* ids of the rows the call resolved with
    sVariant,     \* which application's searchImages ran
    sUrls         \* the URLs in the result: "none", "original" or "signed"

searchVars == <<sTerm, sQueries, sThrown, sOutcome, sRows, sVariant, sUrls>>

VARIABLES
    \* the unstable_cache wrapper: cache(next_unstable_cache(callback, key, options))
    qNow,         \* server clock, in hours
    qReq,         \* request slot -> "idle" or "active" (a request is rendering)
    qMemo,        \* request -> the (function, arguments) pairs React cache() holds
    qStore,       \* (function, arguments) -> hour the data cache stored a result, or NoEntry
    qPending,     \* database callbacks that are running: [req, key]
    qRuns,        \* request -> (function, arguments) -> callback runs it started
    qLast         \* the last call: <<request, key, what served it>>, or <<>>

cacheVars == <<qNow, qReq, qMemo, qStore, qPending, qRuns, qLast>>

VARIABLES
    \* the signed-URL cache of the faster-site S3 query layer
    uNow,         \* Date.now(), in hours
    urlCache,     \* s3Key -> [signedAt, expires], or NoUrl
    uSigning,     \* s3Key -> calls awaiting s3Client.getSecureImageUrl
    uLast         \* what the last getCachedSecureUrl call returned, or NoCall

urlVars == <<uNow, urlCache, uSigning, uLast>>

VARIABLES
    \* one unsplash-faster OptimizedLink and its IntersectionObserver effect;
    \* time in steps of 100 ms
    vMounted,     \* the component is mounted
    vPrefetch,    \* its prefetch prop
    vHref,        \* its href prop
    vObserving,   \* an observer exists and observes the link
    vVisible,     \* the link intersects the viewport (at least 10% visible)
    vVisTicks,    \* for how long it has been intersecting (capped)
    vTimer,       \* prefetchTimeout.current while pending: time left, or NoTimer
    vOrphans,     \* pending timers prefetchTimeout.current no longer refers to
                  \* (ThmViewportPrefetch shows there are none)
    vSleeping,    \* a timer callback is at its await (setTimeout 0): "no", or
                  \* "current" / "stale" by whether its observer is still the
                  \* effect's observer
    vNotified,    \* the observer has called back during this time step
    vEvent        \* what the last step did

viewVars == <<vMounted, vPrefetch, vHref, vObserving, vVisible, vVisTicks, vTimer,
              vOrphans, vSleeping, vNotified, vEvent>>

VARIABLES
    \* the unsplash-faster OptimizedLink instances of one page and the
    \* module-level caches they share
    lkHref,       \* link -> its href, NoHref when the slot is empty
    lkStage,      \* link -> "unmounted", "observing", "fired" (timer callback
                  \* at its await), "fired-unmounted", "unobserved"
    imageCache,   \* href -> list of images (indices into ImagePool), or NoImages
    seenImages,   \* the set of image keys
    downloads,    \* image -> number of Image elements given its src
    inflight,     \* href -> /api/prefetch-images requests awaiting a response
    hoverHit      \* some mouseenter found a non-empty list in imageCache

ufVars == <<lkHref, lkStage, imageCache, seenImages, downloads, inflight, hoverHit>>

VARIABLES
    \* the proximity-prefetching OptimizedLink instances of one gallery page
    fsCursor,        \* position of the last mousemove event
    fsPending,       \* the links' animation-frame callbacks are scheduled
    fsNear,          \* link -> isNearCursor
    fsRoutes,        \* link -> prefetchedRoutes.has(href)
    fsClosureRoutes, \* link -> the same, as the render whose effect registered
                     \* the current mousemove handler saw it
    fsSeen,          \* link -> seenImages.current of that instance
    fsInflight,      \* link -> /api/prefetch-images requests awaiting a response
    fsDownloads,     \* image URL -> number of Image elements given that src
    fsPrefetched     \* links whose href the last step passed to router.prefetch

fsVars == <<fsCursor, fsPending, fsNear, fsRoutes, fsClosureRoutes, fsSeen,
            fsInflight, fsDownloads, fsPrefetched>>

VARIABLES
    \* a mousedown on an OptimizedLink
    mdLink,       \* the link: its version and href
    mdEvent,      \* the event: button and modifier keys
    mdOutcome     \* what onMouseDown did: preventDefault called, href pushed

mdVars == <<mdLink, mdEvent, mdOutcome>>

VARIABLES
    \* the unsplash-faster SearchBar of the layout; time in steps of 100 ms
    sbValue,       \* searchValue, the text of the input
    sbQ,           \* searchParams.get('q') of the current URL
    sbTimers,      \* pending setTimeout callbacks: time left, the value and the
                   \* q their closure holds, and whether a keystroke followed
    sbPending,     \* isPending: a transition is under way, the input disabled
    sbTarget,      \* the q of the URL last pushed, while the navigation lasts
    sbTyped,       \* a keystroke has happened during this time step
    sbBurstPushes, \* router.push calls made by the timers of the current burst
    sbLast         \* the last router.push: its origin, value and whether a
                   \* keystroke had followed the one that set the timer

sbVars == <<sbValue, sbQ, sbTimers, sbPending, sbTarget, sbTyped, sbBurstPushes, sbLast>>

VARIABLES
    \* the faster-site SearchBar of the layout; time in steps of 100 ms
    dqQuery,      \* query, the text of the input
    dqTimers,     \* pending timers of debounce: time left and the argument
    dqLastValue,  \* the value of the last input change, NoValue before any
    dqSince,      \* time since the last input change (capped)
    dqTyped,      \* an input change has happened during this time step
    dqBurstNavs,  \* navigations of the debounced handler since the current
                  \* burst of input changes began
    dqLast,       \* the last router.push: origin, URL, and for the debounced
                  \* handler its argument, the last change and the time since
    dqAction      \* what the user did last: "none", "change", "submit", "clear"

dqVars == <<dqQuery, dqTimers, dqLastValue, dqSince, dqTyped, dqBurstNavs, dqLast,
            dqAction>>

VARIABLES
    \* faster-site GET /api/prefetch-images
    apiLast         \* the last listing request and its response

apiVars == <<apiLast>>

VARIABLES
    \* faster-site back navigation: the BackNavigationPreloader of an image
    \* detail page, sessionStorage and the GalleryScrollRestoration of the
    \* gallery page
    bnStage,        \* the preloader: "none", "timer" (500 ms delay), "fetching",
                    \* "done", "failed", and after the page was left while
                    \* fetching "fetching-left" and "left-done"
    bnGallery,      \* getImages(category) of the gallery the page returns to
    bnCurrent,      \* currentImageId, NoId when not given
    bnBranch,       \* the branch prefetchGallery took
    bnScheduled,    \* the preloads it scheduled: index in the gallery and delay
    sessionStorage, \* gallery_return_position and gallery_return_image_id
    grStage,        \* the scroll restoration: "none", "timer" (100 ms), "ran"
    grImages,       \* the images prop of the gallery page
    grLast          \* what the last restoreScrollPosition found and did

bnVars == <<bnStage, bnGallery, bnCurrent, bnBranch, bnScheduled,
            sessionStorage, grStage, grImages, grLast>>

VARIABLES
    \* faster-site GalleryCacheWarmer
    gwMounted,           \* the GalleryCacheWarmer is mounted
    gwTotalImages,       \* its totalImages prop
    gwNow,               \* seconds since the mount
    gwTimers,            \* bag of pending timers with what their closures hold
    gwFetches,           \* bag of requests without a response yet
    warmedPages,         \* the warmedPages state
    warmedCategories,    \* the warmedCategories state
    gwPageRequests,      \* requests sent for page currentPage + 1
    gwCategoryRequests   \* requests sent per other category

gwVars == <<gwMounted, gwTotalImages, gwNow, gwTimers, gwFetches, warmedPages,
            warmedCategories, gwPageRequests, gwCategoryRequests>>

VARIABLES
    \* faster-site GET /api/search
    srLast          \* the last request and its response

srVars == <<srLast>>

VARIABLES
    \* faster-site ingestFromUnsplash
    inStage,         \* "idle", "search", "image", "count", "done"
    inCat,           \* the category of the loop, by its place in SEARCH_CATEGORIES
    inIdx,           \* i of the loop over the images
    inLength,        \* searchResults.results.length of the category
    imagesTable,     \* the rows of the images table
    categoriesTable, \* the slugs of the categories table
    s3Objects,       \* the objects of the bucket: key and body
    inErrors,        \* console.error calls of the two loops
    inLast,          \* the last step of the run and what happened in it
    inResult         \* what the call has returned or thrown

inVars == <<inStage, inCat, inIdx, inLength, imagesTable, categoriesTable,
            s3Objects, inErrors, inLast, inResult>>

VARIABLES
    \* unsplash-faster ingestion script
    scStage,        \* "idle", "fetch", "requesting", "waiting", "images", "done"
    scCat,          \* the category of the loop, by its place in SEARCH_CATEGORIES
    scPage,         \* page of the page loop
    scIngested,     \* categoryIngested
    scPending,      \* results of the page not yet processed
    scRequests      \* how often the search request under way has been sent

scVars == <<scStage, scCat, scPage, scIngested, scPending, scRequests>>

VARIABLES
    \* one render of the faster-site ImageGrid, card by card
    icLength,     \* images.length of the grid being rendered
    icIndex,      \* number of cards rendered so far
    icCard        \* props the last card gave its Image, or NoCard

icVars == <<icLength, icIndex, icCard>>

VARIABLES
    \* one run of the unsplash-faster ingestFromUnsplash
    uiStage,            \* "idle", "search", "image", "completed", "count", "done"
    uiCat,              \* index of the category in SEARCH_CATEGORIES
    uiPage,             \* page of the page loop
    uiCategoryIngested, \* categoryIngested
    uiTotalIngested,    \* totalIngested
    uiAvailable,        \* results Unsplash holds for the category's search term
    uiNext,             \* rank of the result the image loop is at
    uiLastRank,         \* rank of the last result of the page
    uiTable,            \* images table: <<category, rank of the photo>>
    uiFailures,         \* requests and statements that threw (capped)
    uiResult            \* what the call gave its caller, or NoResult

uiVars == <<uiStage, uiCat, uiPage, uiCategoryIngested, uiTotalIngested,
            uiAvailable, uiNext, uiLastRank, uiTable, uiFailures, uiResult>>

VARIABLES
    \* runs of the script addArchitectureImages against one database
    aaStage,         \* "idle", "category", "search", "image", "summary", "done"
    aaPage,          \* page of the page loop
    aaTotalIngested, \* totalIngested of the run
    aaAvailable,     \* results Unsplash holds for the search term
    aaFailing,       \* rank of the photo whose requests fail in this run, or 0
    aaNext,          \* rank of the result the image loop is at
    aaLastRank,      \* rank of the last result of the page
    aaCategories,    \* categories table: rows [id, slug]
    aaImages,        \* images table: rows [id, unsplashId]
    aaRowsBefore,    \* rows of the images table when the run started
    aaEarlier,       \* an earlier run has ended without a failure
    aaClean,         \* no request or statement of this run has thrown
    aaLast           \* what the last step did

aaVars == <<aaStage, aaPage, aaTotalIngested, aaAvailable, aaFailing, aaNext,
            aaLastRank, aaCategories, aaImages, aaRowsBefore, aaEarlier, aaClean,
            aaLast>>

VARIABLES
    \* GET /api/prefetch-images: the last request and its response
    pfLast

pfVars == <<pfLast>>

VARIABLES
    \* the faster-site S3 query layer end to end: the data cache in front of
    \* the signed-URL cache, for one s3Key; ages in steps of 20 minutes
    evUrlAge,     \* age of the urlCache entry's URL, or NoEntry
    evStore,      \* cached query -> [age of the stored result, urlAge of the
                  \* URL in it (Unsigned for the stored s3Url)], or NotStored
    evLast        \* the result just served: [from, urlAge], or NotServed

evVars == <<evUrlAge, evStore, evLast>>

vars == <<searchVars, cacheVars, urlVars, viewVars, ufVars, fsVars, mdVars, sbVars, dqVars, apiVars, bnVars, gwVars, srVars, inVars, scVars, icVars, uiVars, aaVars, pfVars, evVars>>

\* what each component leaves alone
notSearchVars == <<cacheVars, urlVars, viewVars, ufVars, fsVars, mdVars, sbVars, dqVars, apiVars, bnVars, gwVars, srVars, inVars, scVars, icVars, uiVars, aaVars, pfVars, evVars>>
notCacheVars == <<searchVars, urlVars, viewVars, ufVars, fsVars, mdVars, sbVars, dqVars, apiVars, bnVars, gwVars, srVars, inVars, scVars, icVars, uiVars, aaVars, pfVars, evVars>>
notUrlVars == <<searchVars, cacheVars, viewVars, ufVars, fsVars, mdVars, sbVars, dqVars, apiVars, bnVars, gwVars, srVars, inVars, scVars, icVars, uiVars, aaVars, pfVars, evVars>>
notViewVars == <<searchVars, cacheVars, urlVars, ufVars, fsVars, mdVars, sbVars, dqVars, apiVars, bnVars, gwVars, srVars, inVars, scVars, icVars, uiVars, aaVars, pfVars, evVars>>
notUfVars == <<searchVars, cacheVars, urlVars, viewVars, fsVars, mdVars, sbVars, dqVars, apiVars, bnVars, gwVars, srVars, inVars, scVars, icVars, uiVars, aaVars, pfVars, evVars>>
notFsVars == <<searchVars, cacheVars, urlVars, viewVars, ufVars, mdVars, sbVars, dqVars, apiVars, bnVars, gwVars, srVars, inVars, scVars, icVars, uiVars, aaVars, pfVars, evVars>>
notMdVars == <<searchVars, cacheVars, urlVars, viewVars, ufVars, fsVars, sbVars, dqVars, apiVars, bnVars, gwVars, srVars, inVars, scVars, icVars, uiVars, aaVars, pfVars, evVars>>
notSbVars == <<searchVars, cacheVars, urlVars, viewVars, ufVars, fsVars, mdVars, dqVars, apiVars, bnVars, gwVars, srVars, inVars, scVars, icVars, uiVars, aaVars, pfVars, evVars>>
notDqVars == <<searchVars, cacheVars, urlVars, viewVars, ufVars, fsVars, mdVars, sbVars, apiVars, bnVars, gwVars, srVars, inVars, scVars, icVars, uiVars, aaVars, pfVars, evVars>>
notApiVars == <<searchVars, cacheVars, urlVars, viewVars, ufVars, fsVars, mdVars, sbVars, dqVars, bnVars, gwVars, srVars, inVars, scVars, icVars, uiVars, aaVars, pfVars, evVars>>
notBnVars == <<searchVars, cacheVars, urlVars, viewVars, ufVars, fsVars, mdVars, sbVars, dqVars, apiVars, gwVars, srVars, inVars, scVars, icVars, uiVars, aaVars, pfVars, evVars>>
notGwVars == <<searchVars, cacheVars, urlVars, viewVars, ufVars, fsVars, mdVars, sbVars, dqVars, apiVars, bnVars, srVars, inVars, scVars, icVars, uiVars, aaVars, pfVars, evVars>>
notSrVars == <<searchVars, cacheVars, urlVars, viewVars, ufVars, fsVars, mdVars, sbVars, dqVars, apiVars, bnVars, gwVars, inVars, scVars, icVars, uiVars, aaVars, pfVars, evVars>>
notInVars == <<searchVars, cacheVars, urlVars, viewVars, ufVars, fsVars, mdVars, sbVars, dqVars, apiVars, bnVars, gwVars, srVars, scVars, icVars, uiVars, aaVars, pfVars, evVars>>
notScVars == <<searchVars, cacheVars, urlVars, viewVars, ufVars, fsVars, mdVars, sbVars, dqVars, apiVars, bnVars, gwVars, srVars, inVars, icVars, uiVars, aaVars, pfVars, evVars>>
notIcVars == <<searchVars, cacheVars, urlVars, viewVars, ufVars, fsVars, mdVars, sbVars, dqVars, apiVars, bnVars, gwVars, srVars, inVars, scVars, uiVars, aaVars, pfVars, evVars>>
notUiVars == <<searchVars, cacheVars, urlVars, viewVars, ufVars, fsVars, mdVars, sbVars, dqVars, apiVars, bnVars, gwVars, srVars, inVars, scVars, icVars, aaVars, pfVars, evVars>>
notAaVars == <<searchVars, cacheVars, urlVars, viewVars, ufVars, fsVars, mdVars, sbVars, dqVars, apiVars, bnVars, gwVars, srVars, inVars, scVars, icVars, uiVars, pfVars, evVars>>
notPfVars == <<searchVars, cacheVars, urlVars, viewVars, ufVars, fsVars, mdVars, sbVars, dqVars, apiVars, bnVars, gwVars, srVars, inVars, scVars, icVars, uiVars, aaVars, evVars>>
notEvVars == <<searchVars, cacheVars, urlVars, viewVars, ufVars, fsVars, mdVars, sbVars, dqVars, apiVars, bnVars, gwVars, srVars, inVars, scVars, icVars, uiVars, aaVars, pfVars>>

\* =====================================================================
\* Strings (sequences of one-character strings) and the JS string methods
\* searchImages uses
\* =====================================================================
Chars == {"a", "A", "b", " "}

Terms == UNION {[1..n -> Chars] : n \in 0..MaxTermLen}

IsSpace(c) == c = " "

\* String.prototype.toLowerCase, per character
LowerChar(c) == IF c = "A" THEN "a" ELSE c

toLowerCase(s) == [i \in 1..Len(s) |-> LowerChar(s[i])]

RECURSIVE trimStart(_)
trimStart(s) ==
    IF s # <<>> /\ IsSpace(Head(s)) THEN trimStart(Tail(s)) ELSE s

RECURSIVE trimEnd(_)
trimEnd(s) ==
    IF s # <<>> /\ IsSpace(s[Len(s)]) THEN trimEnd(SubSeq(s, 1, Len(s) - 1)) ELSE s

\* String.prototype.trim
trim(s) == trimEnd(trimStart(s))

\* s.split(' '): the pieces between single spaces (empty pieces included)
RECURSIVE splitSpace(_, _)
splitSpace(s, cur) ==
    IF s = <<>> THEN <<cur>>
    ELSE IF IsSpace(Head(s)) THEN <<cur>> \o splitSpace(Tail(s), <<>>)
    ELSE splitSpace(Tail(s), Append(cur, Head(s)))

\* .filter(term => term.trim() !== '')
RECURSIVE filterNonBlank(_)
filterNonBlank(ws) ==
    IF ws = <<>> THEN <<>>
    ELSE IF trim(Head(ws)) # <<>> THEN <<Head(ws)>> \o filterNonBlank(Tail(ws))
    ELSE filterNonBlank(Tail(ws))

\* the words "w:*" joined by " & " that are handed to to_tsquery
formattedSearchTerm(trimmedTerm) == filterNonBlank(splitSpace(trimmedTerm, <<>>))

\* =====================================================================
\* The images table and the three SQL predicates of searchImages
\* =====================================================================
ImagesTable ==
    { [id |-> 1, title |-> <<"a", "b">>,           description |-> <<"b", "A">>],
      [id |-> 2, title |-> <<"A", "a", "b">>,      description |-> <<>>],
      [id |-> 3, title |-> <<"b", " ", "a", "b">>, description |-> <<"a", "a", "b">>],
      [id |-> 4, title |-> <<"b", "a">>,           description |-> <<"A", "b", " ", "b">>] }

\* .limit(20)
SearchLimit == 20

\* LIKE, which compares the characters as they are
IsPrefixCS(p, s) ==
    /\ Len(p) <= Len(s)
    /\ SubSeq(s, 1, Len(p)) = p

IsPrefixCI(p, s) ==
    /\ Len(p) <= Len(s)
    /\ toLowerCase(SubSeq(s, 1, Len(p))) = toLowerCase(p)

IsInfixCI(p, s) ==
    \E k \in 0..(Len(s) - Len(p)) :
        toLowerCase(SubSeq(s, k + 1, k + Len(p))) = toLowerCase(p)

\* title ILIKE term || '%'
IlikePrefixRows(t) == {r.id : r \in {x \in ImagesTable : IsPrefixCI(t, x.title)}}

\* title ILIKE '%' || term || '%'
IlikeContainsRows(t) == {r.id : r \in {x \in ImagesTable : IsInfixCI(t, x.title)}}

\* lexemes of to_tsvector(title || ' ' || COALESCE(description, ''))
Lexemes(r) ==
    LET doc == r.title \o <<" ">> \o r.description
        ws  == filterNonBlank(splitSpace(doc, <<>>))
    IN  {ws[i] : i \in 1..Len(ws)}

\* tsvector @@ to_tsquery('w1:* & w2:* ...'): every word prefixes a lexeme
FullTextRows(words) ==
    {r.id : r \in {x \in ImagesTable :
        \A i \in 1..Len(words) : \E l \in Lexemes(x) : IsPrefixCI(words[i], l)}}

\* rows after .limit(n)
Limited(rows, n) ==
    IF Cardinality(rows) <= n THEN rows
    ELSE CHOOSE sub \in SUBSET rows : Cardinality(sub) = n

\* =====================================================================
\* searchImages (the cached callback), unsplash-faster and the S3 variant
\* =====================================================================
Variants == {"unsplash-faster", "faster-site-s3"}

\* if (!searchTerm || searchTerm.trim().length === 0) return []
IsEmptyTerm(searchTerm) == Len(trim(searchTerm)) = 0

UsesPrefixSearchShort(trimmedTerm) == Len(trimmedTerm) <= 3

\* if (trimmedTerm.length <= 2): the ILIKE prefix branch
UsesPrefixSearch(trimmedTerm) == Len(trimmedTerm) <= 2

onFullTextErrorRethrow(trimmedTerm, ilikeThrows) ==
    [queries |-> <<"fulltext">>, thrown |-> {"fulltext"},
     outcome |-> "error", rows |-> {}]

\* catch (error) { ... ILIKE '%term%' ... }: the fallback after a failed
\* full-text query
onFullTextError(trimmedTerm, ilikeThrows) ==
    IF ilikeThrows
    THEN [queries |-> <<"fulltext", "ilike_contains">>,
          thrown |-> {"fulltext", "ilike_contains"},
          outcome |-> "error", rows |-> {}]
    ELSE [queries |-> <<"fulltext", "ilike_contains">>, thrown |-> {"fulltext"},
          outcome |-> "ok",
          rows |-> Limited(IlikeContainsRows(trimmedTerm), SearchLimit)]

\* The database part of one call: the queries issued, in order; those that
\* threw; the outcome and the rows.  ftsThrows / ilikeThrows say whether the
\* database rejects the full-text query / an ILIKE query.
searchImagesCallback(searchTerm, ftsThrows, ilikeThrows) ==
    LET trimmedTerm == trim(searchTerm) IN
    IF IsEmptyTerm(searchTerm)
    THEN [queries |-> <<>>, thrown |-> {}, outcome |-> "ok", rows |-> {}]
    ELSE IF UsesPrefixSearch(trimmedTerm) THEN
        IF ilikeThrows
        THEN [queries |-> <<"ilike_prefix">>, thrown |-> {"ilike_prefix"},
              outcome |-> "error", rows |-> {}]
        ELSE [queries |-> <<"ilike_prefix">>, thrown |-> {},
              outcome |-> "ok",
              rows |-> Limited(IlikePrefixRows(trimmedTerm), SearchLimit)]
    ELSE IF ~ftsThrows
        THEN [queries |-> <<"fulltext">>, thrown |-> {},
              outcome |-> "ok",
              rows |-> Limited(FullTextRows(formattedSearchTerm(trimmedTerm)), SearchLimit)]
    ELSE onFullTextError(trimmedTerm, ilikeThrows)

\* addSecureUrls never rejects: when signing the first image fails every row
\* keeps its stored URL, otherwise the rows carry signed URLs
addSecureUrls(rows, signThrows) ==
    IF rows = {} THEN "none"
    ELSE IF signThrows THEN "original" ELSE "signed"

InitSearch ==
    /\ sVariant = "unsplash-faster"
    /\ sTerm = <<>>
    /\ sQueries = <<>>
    /\ sThrown = {}
    /\ sOutcome = "none"
    /\ sRows = {}
    /\ sUrls = "none"

\* one call of searchImages whose callback runs (a cache miss)
SearchImages ==
    \E variant \in Variants, term \in Terms,
       ftsThrows \in BOOLEAN, ilikeThrows \in BOOLEAN, signThrows \in BOOLEAN :
        LET r == searchImagesCallback(term, ftsThrows, ilikeThrows) IN
        /\ sOutcome = "none"
        /\ sVariant' = variant
        /\ sTerm' = term
        /\ sQueries' = r.queries
        /\ sThrown' = r.thrown
        /\ sOutcome' = r.outcome
        /\ sRows' = r.rows
        /\ sUrls' = IF variant = "faster-site-s3" /\ r.outcome = "ok"
                    THEN addSecureUrls(r.rows, signThrows)
                    ELSE IF r.rows = {} THEN "none" ELSE "original"

\* the caller has consumed the result; the next request may call again
SearchReturn ==
    /\ sOutcome # "none"
    /\ sVariant' = "unsplash-faster"
    /\ sTerm' = <<>>
    /\ sQueries' = <<>>
    /\ sThrown' = {}
    /\ sOutcome' = "none"
    /\ sRows' = {}
    /\ sUrls' = "none"

\* C1: for a term whose trimmed length is 3 or more the full-text query is
\* attempted first; when it throws, the ILIKE '%term%' title query runs and
\* its rows are returned, so a full-text failure alone is never an error.
ThmFullTextFallback ==
    (sOutcome # "none" /\ Len(trim(sTerm)) >= 3) =>
        /\ Len(sQueries) >= 1 /\ sQueries[1] = "fulltext"
        /\ "fulltext" \in sThrown =>
              /\ sQueries = <<"fulltext", "ilike_contains">>
              /\ "ilike_contains" \notin sThrown =>
                    /\ sOutcome = "ok"
                    /\ sRows = Limited(IlikeContainsRows(trim(sTerm)), SearchLimit)
        /\ sOutcome = "error" => "ilike_contains" \in sThrown

WitFullTextFallback ==
    /\ sVariant = "faster-site-s3"
    /\ Len(trim(sTerm)) >= 3
    /\ sThrown = {"fulltext"}
    /\ sOutcome = "ok"
    /\ sRows # {}

\* C2: the strategy depends on the trimmed term only: blank terms return []
\* with no query, trimmed length 1 or 2 issues only the ILIKE prefix query,
\* trimmed length 3 or more attempts full-text search first.
ThmStrategyByTrimmedLength ==
    sOutcome # "none" =>
        LET n == Len(trim(sTerm)) IN
        /\ n = 0 => (sQueries = <<>> /\ sOutcome = "ok" /\ sRows = {})
        /\ n \in 1..2 => sQueries = <<"ilike_prefix">>
        /\ n >= 3 => (sQueries # <<>> /\ Head(sQueries) = "fulltext")

WitStrategyByTrimmedLength ==
    /\ Len(sTerm) = 4
    /\ Len(trim(sTerm)) = 2
    /\ sQueries = <<"ilike_prefix">>
    /\ sRows # {}

\* (searchTerm) => ['search-results', searchTerm.toLowerCase().trim()]
searchKeyParts(searchTerm) == <<"search-results", trim(toLowerCase(searchTerm))>>

\* the terms that are given the key of the term of the last call
SameKeyTerms == {t \in Terms : searchKeyParts(t) = searchKeyParts(sTerm)}

Requests == 1..MaxRequests

\* a cached query with the arguments it is called with (every query built
\* with the wrapper is keyed the same way)
CacheKeys == { <<"getImages", "all">> }

NoEntry == -1

\* revalidate: 60 * 60 * 2 seconds, in hours
Revalidate == 2

reactCacheHitNever(r, k) == FALSE

\* cache(...) from react: within one request a call with arguments already
\* seen returns the memoized promise
reactCacheHit(r, k) == k \in qMemo[r]

\* next_unstable_cache: a stored result younger than revalidate is served
dataCacheFresh(k) == qStore[k] # NoEntry /\ qNow - qStore[k] < Revalidate

InitCache ==
    /\ qNow = 0
    /\ qReq = [r \in Requests |-> "idle"]
    /\ qMemo = [r \in Requests |-> {}]
    /\ qStore = [k \in CacheKeys |-> NoEntry]
    /\ qPending = {}
    /\ qRuns = [r \in Requests |-> [k \in CacheKeys |-> 0]]
    /\ qLast = <<>>

\* a request starts: React gives it an empty memo
BeginRequest(r) ==
    /\ qReq[r] = "idle"
    /\ qReq' = [qReq EXCEPT ![r] = "active"]
    /\ UNCHANGED <<qNow, qMemo, qStore, qPending, qRuns, qLast>>

\* a cached query is called during request r
CallCached(r, k) ==
    /\ qReq[r] = "active"
    /\ qRuns[r][k] < MaxRuns
    /\ IF reactCacheHit(r, k)
       THEN /\ qLast' = <<r, k, "memo">>
            /\ UNCHANGED <<qMemo, qPending, qRuns>>
       ELSE /\ qMemo' = [qMemo EXCEPT ![r] = @ \cup {k}]
            /\ IF dataCacheFresh(k)
               THEN /\ qLast' = <<r, k, "stored">>
                    /\ UNCHANGED <<qPending, qRuns>>
               ELSE \* no entry, or a stale one: the callback runs
                    /\ qLast' = <<r, k, "callback">>
                    /\ qPending' = qPending \cup {[req |-> r, key |-> k]}
                    /\ qRuns' = [qRuns EXCEPT ![r][k] = @ + 1]
    /\ UNCHANGED <<qNow, qReq, qStore>>

\* the database callback resolves: the data cache stores the result
CallbackResolves(p) ==
    /\ p \in qPending
    /\ qPending' = qPending \ {p}
    /\ qStore' = [qStore EXCEPT ![p.key] = qNow]
    /\ UNCHANGED <<qNow, qReq, qMemo, qRuns, qLast>>

\* the database callback rejects: nothing is stored
CallbackRejects(p) ==
    /\ p \in qPending
    /\ qPending' = qPending \ {p}
    /\ UNCHANGED <<qNow, qReq, qMemo, qStore, qRuns, qLast>>

\* the response is sent; the request's memo goes with it
EndRequest(r) ==
    /\ qReq[r] = "active"
    /\ \A p \in qPending : p.req # r
    /\ qReq' = [qReq EXCEPT ![r] = "idle"]
    /\ qMemo' = [qMemo EXCEPT ![r] = {}]
    /\ qRuns' = [qRuns EXCEPT ![r] = [k \in CacheKeys |-> 0]]
    /\ UNCHANGED <<qNow, qStore, qPending, qLast>>

CacheHourPasses ==
    /\ qNow < MaxCacheHours
    /\ qNow' = qNow + 1
    /\ UNCHANGED <<qReq, qMemo, qStore, qPending, qRuns, qLast>>

NextCache ==
    \/ \E r \in Requests : BeginRequest(r) /\ UNCHANGED notCacheVars
    \/ \E r \in Requests, k \in CacheKeys : CallCached(r, k) /\ UNCHANGED notCacheVars
    \/ \E p \in qPending : CallbackResolves(p) /\ UNCHANGED notCacheVars
    \/ \E p \in qPending : CallbackRejects(p) /\ UNCHANGED notCacheVars
    \/ \E r \in Requests : EndRequest(r) /\ UNCHANGED notCacheVars
    \/ CacheHourPasses /\ UNCHANGED notCacheVars

\* C3: within one request the database callback of a cached query runs at
\* most once per argument list, and no callback starts for arguments whose
\* stored result is less than 2 hours old.
ThmCacheTwoTier ==
    [][ /\ \A r \in Requests, k \in CacheKeys : qRuns'[r][k] <= 1
        /\ \A k \in CacheKeys :
              (qStore[k] # NoEntry /\ qNow - qStore[k] < 2) =>
                  \A r \in Requests : qRuns'[r][k] <= qRuns[r][k] ]_vars

\* a request called the same query twice: the result stored one hour earlier
\* served the first call and the memo the second, while the request that ran
\* the callback is still rendering
WitCacheTwoTier ==
    \E k \in CacheKeys, r1, r2 \in Requests :
        /\ qStore[k] # NoEntry /\ qNow - qStore[k] = 1
        /\ qRuns[r1][k] = 1
        /\ r2 # r1 /\ k \in qMemo[r2] /\ qRuns[r2][k] = 0
        /\ qLast = <<r2, k, "memo">>

\* =====================================================================
\* The signed-URL cache: getCachedSecureUrl and the cleanup interval
\* =====================================================================
\* 48 * 60 * 60 seconds, in hours
URL_EXPIRES_IN == 48

\* 47 * 60 * 60 seconds, in hours
CACHE_EXPIRES_IN == 47

\* 2 * 60 * 60 * 1000 milliseconds, in hours
CLEANUP_INTERVAL == 2

S3Keys == {"images/a1b2c3d4.jpg"}

NoUrl == [signedAt |-> -1, expires |-> -1]

NoCall == [from |-> "none"]

isCacheHitNoExpiry(k) == urlCache[k] # NoUrl

\* if (cached && cached.expires > Date.now())
isCacheHit(k) == urlCache[k] # NoUrl /\ urlCache[k].expires > uNow

InitUrl ==
    /\ uNow = 0
    /\ urlCache = [k \in S3Keys |-> NoUrl]
    /\ uSigning = [k \in S3Keys |-> 0]
    /\ uLast = NoCall

\* getCachedSecureUrl(s3Key) up to its return or its await
GetCachedSecureUrl(k) ==
    IF isCacheHit(k)
    THEN /\ uLast' = [from |-> "cache", key |-> k, at |-> uNow,
                      signedAt |-> urlCache[k].signedAt,
                      validUntil |-> urlCache[k].signedAt + URL_EXPIRES_IN]
         /\ UNCHANGED <<uNow, urlCache, uSigning>>
    ELSE /\ uSigning[k] < MaxSigning
         /\ uSigning' = [uSigning EXCEPT ![k] = @ + 1]
         /\ uLast' = [from |-> "await", key |-> k, at |-> uNow,
                      hadEntry |-> urlCache[k] # NoUrl]
         /\ UNCHANGED <<uNow, urlCache>>

\* getSecureImageUrl resolves: the URL, valid for URL_EXPIRES_IN from now (the
\* signing latency is below the clock's resolution), is stored and returned
SignResolves(k) ==
    /\ uSigning[k] > 0
    /\ uSigning' = [uSigning EXCEPT ![k] = @ - 1]
    /\ urlCache' = [urlCache EXCEPT
                      ![k] = [signedAt |-> uNow, expires |-> uNow + CACHE_EXPIRES_IN]]
    /\ uLast' = [from |-> "signed", key |-> k, at |-> uNow,
                 signedAt |-> uNow, validUntil |-> uNow + URL_EXPIRES_IN]
    /\ UNCHANGED uNow

\* getSecureImageUrl rejects: the call throws, the cache is not touched
SignRejects(k) ==
    /\ uSigning[k] > 0
    /\ uSigning' = [uSigning EXCEPT ![k] = @ - 1]
    /\ uLast' = [from |-> "error", key |-> k, at |-> uNow]
    /\ UNCHANGED <<uNow, urlCache>>

\* setInterval(..., CLEANUP_INTERVAL): expired entries are deleted
CleanupExpired ==
    /\ uNow % CLEANUP_INTERVAL = 0
    /\ \E k \in S3Keys : urlCache[k] # NoUrl /\ urlCache[k].expires <= uNow
    /\ urlCache' = [k \in S3Keys |->
                      IF urlCache[k] # NoUrl /\ urlCache[k].expires <= uNow
                      THEN NoUrl ELSE urlCache[k]]
    /\ UNCHANGED <<uNow, uSigning, uLast>>

\* an hour passes; no signature takes that long
UrlHourPasses ==
    /\ uNow < MaxUrlHours
    /\ \A k \in S3Keys : uSigning[k] = 0
    /\ uNow' = uNow + 1
    /\ uLast' = NoCall
    /\ UNCHANGED <<urlCache, uSigning>>

NextUrl ==
    \/ \E k \in S3Keys : GetCachedSecureUrl(k) /\ UNCHANGED notUrlVars
    \/ \E k \in S3Keys : SignResolves(k) /\ UNCHANGED notUrlVars
    \/ \E k \in S3Keys : SignRejects(k) /\ UNCHANGED notUrlVars
    \/ CleanupExpired /\ UNCHANGED notUrlVars
    \/ UrlHourPasses /\ UNCHANGED notUrlVars

\* C4: a URL returned from urlCache was signed less than 47 hours before the
\* call and has more than 1 hour of its 48-hour validity left; an entry whose
\* expires <= now is never returned; a newly signed URL is stored with expiry
\* now + 47 h.
ThmSignedUrlFresh ==
    /\ uLast.from = "cache" =>
          /\ uLast.at - uLast.signedAt < 47
          /\ uLast.validUntil - uLast.at > 1
          /\ uLast.signedAt + 47 > uLast.at
    /\ uLast.from = "signed" =>
          urlCache[uLast.key] = [signedAt |-> uLast.at, expires |-> uLast.at + 47]
    /\ \A k \in S3Keys : urlCache[k] # NoUrl => urlCache[k].expires = urlCache[k].signedAt + 47

\* an expired entry has been replaced, and the replacement is served from the
\* cache an hour later
WitSignedUrlFresh ==
    /\ uLast.from = "cache"
    /\ uLast.signedAt >= 47
    /\ uLast.at = uLast.signedAt + 1

\* =====================================================================
\* unsplash-faster OptimizedLink: the IntersectionObserver effect of one
\* link.  Time advances in steps of 100 ms.  The event loop is not blocked
\* for a whole step: a due timer runs before the next step, and the observer
\* reports at most one change of the link per step.
\* =====================================================================
NoTimer == -1

\* setTimeout(..., 300), in steps of 100 ms
ViewportDelay == 3

timerAfterLeaveKept(t) == t

\* else if (prefetchTimeout.current) { clearTimeout(...); ... = null }
timerAfterLeave(t) == NoTimer

InitView ==
    /\ vMounted = FALSE
    /\ vPrefetch = TRUE
    /\ vHref = "/image/a"
    /\ vObserving = FALSE
    /\ vVisible = FALSE
    /\ vVisTicks = 0
    /\ vTimer = NoTimer
    /\ vOrphans = {}
    /\ vSleeping = "no"
    /\ vNotified = FALSE
    /\ vEvent = "none"

\* the observer callback with entries[0].isIntersecting = isIntersecting
ObserverCallback(isIntersecting) ==
    IF isIntersecting
    THEN \* prefetchTimeout.current = setTimeout(..., 300): a timer already
         \* pending is not cleared, only forgotten
         /\ vTimer' = ViewportDelay
         /\ vOrphans' = IF vTimer # NoTimer THEN vOrphans \cup {vTimer} ELSE vOrphans
    ELSE /\ vTimer' = IF vTimer # NoTimer THEN timerAfterLeave(vTimer) ELSE vTimer
         /\ vOrphans' = vOrphans

\* the effect runs: with prefetch = false it returns at once; otherwise it
\* creates the observer, which reports the link's current state
RunEffect(prefetch) ==
    IF prefetch = FALSE
    THEN /\ vObserving' = FALSE
         /\ UNCHANGED <<vTimer, vOrphans, vNotified>>
    ELSE /\ vObserving' = TRUE
         /\ vNotified' = TRUE
         /\ ObserverCallback(vVisible)

ViewHrefs == {"/image/a", "/image/b"}

\* the component mounts
MountView(href, prefetch) ==
    /\ ~vMounted
    /\ vMounted' = TRUE
    /\ vPrefetch' = prefetch
    /\ vHref' = href
    /\ RunEffect(prefetch)
    /\ vEvent' = "mounted"
    /\ UNCHANGED <<vVisible, vVisTicks, vSleeping>>

\* href or prefetch changes: the effect's cleanup runs (disconnect,
\* clearTimeout), then the effect runs again
PropsChange(href, prefetch) ==
    /\ vMounted
    /\ <<href, prefetch>> # <<vHref, vPrefetch>>
    /\ vPrefetch' = prefetch
    /\ vHref' = href
    /\ IF prefetch = FALSE
       THEN /\ vObserving' = FALSE
            /\ vTimer' = NoTimer
            /\ UNCHANGED <<vOrphans, vNotified>>
       ELSE /\ vObserving' = TRUE
            /\ vNotified' = TRUE
            /\ vTimer' = IF vVisible THEN ViewportDelay ELSE NoTimer
            /\ UNCHANGED vOrphans
    /\ vSleeping' = IF vSleeping = "current" THEN "stale" ELSE vSleeping
    /\ vEvent' = "effect-rerun"
    /\ UNCHANGED <<vMounted, vVisible, vVisTicks>>

\* the component unmounts: observer.disconnect(); clearTimeout(current)
UnmountView ==
    /\ vMounted
    /\ vMounted' = FALSE
    /\ vObserving' = FALSE
    /\ vTimer' = NoTimer
    /\ vSleeping' = IF vSleeping = "current" THEN "stale" ELSE vSleeping
    /\ vEvent' = "unmounted"
    /\ UNCHANGED <<vPrefetch, vHref, vVisible, vVisTicks, vOrphans, vNotified>>

\* the link crosses the 10% threshold; an observing observer calls back
IntersectionChanges ==
    /\ ~vNotified
    /\ vVisible' = ~vVisible
    /\ vVisTicks' = 0
    /\ IF vObserving
       THEN /\ ObserverCallback(~vVisible)
            /\ vNotified' = TRUE
            /\ vEvent' = IF vVisible /\ vTimer # NoTimer THEN "cancelled" ELSE "notified"
       ELSE /\ vEvent' = "unnoticed"
            /\ UNCHANGED <<vTimer, vOrphans, vNotified>>
    /\ UNCHANGED <<vMounted, vPrefetch, vHref, vObserving, vSleeping>>

\* the timer prefetchTimeout.current refers to fires: router.prefetch(href),
\* then the callback awaits setTimeout(0)
ViewportTimerFires ==
    /\ vTimer = 0
    /\ vTimer' = NoTimer
    /\ vSleeping' = "current"
    /\ vEvent' = "viewport-prefetch"
    /\ UNCHANGED <<vMounted, vPrefetch, vHref, vObserving, vVisible, vVisTicks, vOrphans, vNotified>>

\* the callback resumes after its await: image metadata, then
\* observer.unobserve(entry.target)
ViewportCallbackResumes ==
    /\ vSleeping # "no"
    /\ vSleeping' = "no"
    /\ vObserving' = IF vSleeping = "current" THEN FALSE ELSE vObserving
    /\ vEvent' = "unobserved"
    /\ UNCHANGED <<vMounted, vPrefetch, vHref, vVisible, vVisTicks, vTimer, vOrphans, vNotified>>

\* 100 ms pass
ViewTick ==
    /\ vTimer # 0
    /\ vSleeping = "no"
    /\ vTimer' = IF vTimer > 0 THEN vTimer - 1 ELSE vTimer
    /\ vOrphans' = {IF t > 0 THEN t - 1 ELSE t : t \in vOrphans}
    /\ vVisTicks' = IF vVisible /\ vVisTicks < ViewportDelay THEN vVisTicks + 1 ELSE vVisTicks
    /\ vNotified' = FALSE
    /\ vEvent' = "none"
    /\ UNCHANGED <<vMounted, vPrefetch, vHref, vObserving, vVisible, vSleeping>>

\* C9: a viewport-triggered router.prefetch happens only after the link has
\* been intersecting for 300 ms; when the link stops intersecting or the
\* component unmounts no timer stays pending; with prefetch = false there is
\* no observer.
ThmViewportPrefetch ==
    /\ vEvent = "viewport-prefetch" => (vVisible /\ vVisTicks >= 3)
    /\ (vObserving /\ ~vVisible) => vTimer = NoTimer
    /\ ~vMounted => (vTimer = NoTimer /\ ~vObserving)
    /\ (vMounted /\ ~vPrefetch) => (~vObserving /\ vTimer = NoTimer)
    /\ vTimer # NoTimer => (vObserving /\ vVisible /\ vTimer + vVisTicks >= 3)
    /\ vOrphans = {}

\* the timer of a mounted, observed link has just fired and router.prefetch
\* has been called
WitViewportPrefetch ==
    /\ vEvent = "viewport-prefetch"
    /\ vMounted /\ vPrefetch /\ vVisible /\ vObserving

NextView ==
    \/ \E href \in ViewHrefs, prefetch \in BOOLEAN :
          MountView(href, prefetch) /\ UNCHANGED notViewVars
    \/ \E href \in ViewHrefs, prefetch \in BOOLEAN :
          PropsChange(href, prefetch) /\ UNCHANGED notViewVars
    \/ UnmountView /\ UNCHANGED notViewVars
    \/ IntersectionChanges /\ UNCHANGED notViewVars
    \/ ViewportTimerFires /\ UNCHANGED notViewVars
    \/ ViewportCallbackResumes /\ UNCHANGED notViewVars
    \/ ViewTick /\ UNCHANGED notViewVars

\* =====================================================================
\* unsplash-faster OptimizedLink: the link instances of one page, the
\* module-level seenImages and imageCache, and the image downloads
\* =====================================================================
Links == {"link1", "link2"}

NoHref == <<>>

\* hrefs as sequences of characters: two image pages, the home page, and an
\* href that does not start with "/"
Hrefs == { <<"/", "a">>, <<"/", "b">>, <<"/">>, <<"a">> }

NoImages == <<-1>>

\* the images the pages show, as /api/prefetch-images describes them
ImagePool == <<
    [srcset |-> "a-400.jpg 400w, a-800.jpg 800w", src |-> "a-800.jpg", loading |-> "eager"],
    [srcset |-> "", src |-> "b.jpg", loading |-> "eager"],
    [srcset |-> "", src |-> "c.jpg", loading |-> "lazy"],
    [srcset |-> "a-400.jpg 400w, a-800.jpg 800w", src |-> "a-400.jpg", loading |-> "eager"] >>

Images == DOMAIN ImagePool

\* image.srcset || image.src
ImageKey(image) == IF image.srcset # "" THEN image.srcset ELSE image.src

ImageKeys == {ImageKey(ImagePool[i]) : i \in Images}

\* the list /api/prefetch-images<href> answers with
ResponseOf(href) ==
    IF href = <<"/", "a">> THEN <<1, 3, 4>>
    ELSE IF href = <<"/", "b">> THEN <<2, 1>>
    ELSE <<>>

seenHasNever(seen, key) == FALSE

\* seenImages.has(key)
seenHas(seen, key) == key \in seen

\* prefetchImage(image) on st = [seen, dl]: the image i of the pool
prefetchImage(st, i) ==
    LET image == ImagePool[i]
        key == ImageKey(image)
    IN  IF image.loading = "lazy" \/ seenHas(st.seen, key)
        THEN st
        ELSE [seen |-> st.seen \cup {key},
              dl |-> IF image.srcset # "" \/ image.src # ""
                     THEN [st.dl EXCEPT ![i] = IF @ < MaxDownloads THEN @ + 1 ELSE @]
                     ELSE st.dl]

\* images.forEach(prefetchImage)
RECURSIVE prefetchAll(_, _)
prefetchAll(st, images) ==
    IF images = <<>> THEN st
    ELSE prefetchAll(prefetchImage(st, Head(images)), Tail(images))

\* !href.startsWith("/") || href === "/"
IsSkippedRoute(href) == ~(Len(href) > 0 /\ href[1] = "/") \/ href = <<"/">>

InitUf ==
    /\ lkHref = [l \in Links |-> NoHref]
    /\ lkStage = [l \in Links |-> "unmounted"]
    /\ imageCache = [h \in Hrefs |-> NoImages]
    /\ seenImages = {}
    /\ downloads = [i \in Images |-> 0]
    /\ inflight = [h \in Hrefs |-> 0]
    /\ hoverHit = FALSE

\* a link is rendered; its effect creates the observer
MountLink(l, href) ==
    /\ lkStage[l] = "unmounted"
    /\ lkHref' = [lkHref EXCEPT ![l] = href]
    /\ lkStage' = [lkStage EXCEPT ![l] = "observing"]
    /\ UNCHANGED <<imageCache, seenImages, downloads, inflight, hoverHit>>

\* a link is removed; a timer callback already at its await goes on
UnmountLink(l) ==
    /\ lkStage[l] \in {"observing", "fired", "unobserved"}
    /\ IF lkStage[l] = "fired"
       THEN /\ lkStage' = [lkStage EXCEPT ![l] = "fired-unmounted"]
            /\ UNCHANGED lkHref
       ELSE /\ lkStage' = [lkStage EXCEPT ![l] = "unmounted"]
            /\ lkHref' = [lkHref EXCEPT ![l] = NoHref]
    /\ UNCHANGED <<imageCache, seenImages, downloads, inflight, hoverHit>>

\* the viewport timer of a link fires: router.prefetch(href), then the await
LinkTimerFires(l) ==
    /\ lkStage[l] = "observing"
    /\ lkStage' = [lkStage EXCEPT ![l] = "fired"]
    /\ UNCHANGED <<lkHref, imageCache, seenImages, downloads, inflight, hoverHit>>

\* the timer callback resumes: if (!imageCache.has(href)) prefetchImages(href);
\* observer.unobserve.  For a skipped route prefetchImages resolves to []
\* without a request and imageCache.set(href, []) follows in the same task.
LinkCallbackResumes(l) ==
    LET href == lkHref[l] IN
    /\ lkStage[l] \in {"fired", "fired-unmounted"}
    /\ IF imageCache[href] # NoImages
       THEN UNCHANGED <<imageCache, inflight>>
       ELSE IF IsSkippedRoute(href)
            THEN /\ imageCache' = [imageCache EXCEPT ![href] = <<>>]
                 /\ UNCHANGED inflight
            ELSE /\ inflight[href] < MaxInflight
                 /\ inflight' = [inflight EXCEPT ![href] = @ + 1]
                 /\ UNCHANGED imageCache
    /\ IF lkStage[l] = "fired"
       THEN /\ lkStage' = [lkStage EXCEPT ![l] = "unobserved"]
            /\ UNCHANGED lkHref
       ELSE /\ lkStage' = [lkStage EXCEPT ![l] = "unmounted"]
            /\ lkHref' = [lkHref EXCEPT ![l] = NoHref]
    /\ UNCHANGED <<seenImages, downloads, hoverHit>>

\* a metadata request is answered (ok = FALSE: an error status, a network
\* error or a body without images, all of which give []); then
\* imageCache.set(href, images) and images.forEach(prefetchImage)
MetadataArrives(href, ok) ==
    LET images == IF ok THEN ResponseOf(href) ELSE <<>>
        st == prefetchAll([seen |-> seenImages, dl |-> downloads], images)
    IN  /\ inflight[href] > 0
        /\ inflight' = [inflight EXCEPT ![href] = @ - 1]
        /\ imageCache' = [imageCache EXCEPT ![href] = images]
        /\ seenImages' = st.seen
        /\ downloads' = st.dl
        /\ UNCHANGED <<lkHref, lkStage, hoverHit>>

\* onMouseEnter: router.prefetch(href); prefetchImage for each image of
\* imageCache.get(href) || []
MouseEnterLink(l) ==
    LET href == lkHref[l]
        images == IF imageCache[href] = NoImages THEN <<>> ELSE imageCache[href]
        st == prefetchAll([seen |-> seenImages, dl |-> downloads], images)
    IN  /\ lkStage[l] \in {"observing", "fired", "unobserved"}
        /\ seenImages' = st.seen
        /\ downloads' = st.dl
        /\ hoverHit' = (hoverHit \/ images # <<>>)
        /\ UNCHANGED <<lkHref, lkStage, imageCache, inflight>>

NextUf ==
    \/ \E l \in Links, href \in Hrefs : MountLink(l, href) /\ UNCHANGED notUfVars
    \/ \E l \in Links : UnmountLink(l) /\ UNCHANGED notUfVars
    \/ \E l \in Links : LinkTimerFires(l) /\ UNCHANGED notUfVars
    \/ \E l \in Links : LinkCallbackResumes(l) /\ UNCHANGED notUfVars
    \/ \E href \in Hrefs, ok \in BOOLEAN : MetadataArrives(href, ok) /\ UNCHANGED notUfVars
    \/ \E l \in Links : MouseEnterLink(l) /\ UNCHANGED notUfVars

\* C29: for each href /api/prefetch-images<href> is requested at most once
\* across all link instances, the has check and the later set acting as
\* one step, so two requests for one href never await their responses
\* together; the home page and hrefs not starting with "/" are never requested.
CexMetadataRequestedOnce ==
    \A href \in Hrefs :
        /\ inflight[href] <= 1
        /\ IsSkippedRoute(href) => inflight[href] = 0

\* downloads started for an image key
RECURSIVE SumDownloads(_, _)
SumDownloads(key, n) ==
    IF n = 0 THEN 0
    ELSE SumDownloads(key, n - 1)
         + (IF ImageKey(ImagePool[n]) = key THEN downloads[n] ELSE 0)

KeyDownloads(key) == SumDownloads(key, Len(ImagePool))

\* C5: each image key (srcset, or src when srcset is empty) starts at most one
\* download, whatever the interleaving of timer callbacks, metadata responses
\* and mouseenter events of the links; a downloaded image's key is in
\* seenImages; an image with loading = "lazy" is never downloaded.
ThmSeenImagesDedup ==
    /\ \A key \in ImageKeys : KeyDownloads(key) <= 1
    /\ \A i \in Images : downloads[i] > 0 => ImageKey(ImagePool[i]) \in seenImages
    /\ \A i \in Images : ImagePool[i].loading = "lazy" => downloads[i] = 0

\* both image pages' lists, which share an image key and contain a lazy image,
\* have arrived and been hovered, while a second response for one of them is
\* still to come
WitSeenImagesDedup ==
    /\ imageCache[<<"/", "a">>] = <<1, 3, 4>>
    /\ imageCache[<<"/", "b">>] = <<2, 1>>
    /\ hoverHit
    /\ \E key \in ImageKeys : KeyDownloads(key) = 1 /\ Cardinality({i \in Images : ImageKey(ImagePool[i]) = key}) = 2
    /\ \E h \in Hrefs : inflight[h] > 0

\* =====================================================================
\* The OptimizedLink with proximity prefetching (faster-site), in its two
\* versions: with imageSrc / isBackButton and API prefetch, and the plain
\* one with onMouseEnter.  A state change re-renders the component and runs
\* its effect again before the next mousemove is handled, so the handler's
\* wasNear is the isNearCursor state.
\* =====================================================================
prefetchDistance == 150

NoSrc == ""

\* the links of the page: two image cards whose images share a file (ids 1
\* and 6 of the generated mock images), a back button and a plain link;
\* href as path segments, cx / cy the centre of the element
FsLinkProps == [
    card1 |-> [version |-> "image", href |-> <<"image", "1">>, imageSrc |-> "/images/mock001.jpg",
               isBackButton |-> FALSE, cx |-> 0, cy |-> 0],
    card6 |-> [version |-> "image", href |-> <<"image", "6">>, imageSrc |-> "/images/mock001.jpg",
               isBackButton |-> FALSE, cx |-> 200, cy |-> 0],
    back  |-> [version |-> "image", href |-> <<>>, imageSrc |-> NoSrc,
               isBackButton |-> TRUE, cx |-> 0, cy |-> 400],
    plain |-> [version |-> "plain", href |-> <<"image", "2">>, imageSrc |-> NoSrc,
               isBackButton |-> FALSE, cx |-> 200, cy |-> 400] ]

FsLinks == DOMAIN FsLinkProps

FsUrls == {FsLinkProps[l].imageSrc : l \in FsLinks} \ {NoSrc}

\* cursor positions: e.clientX, e.clientY
FarAway == [x |-> 1000, y |-> 1000]

Positions == { [x |-> 150, y |-> 0], [x |-> 151, y |-> 0], [x |-> 90, y |-> 120],
               [x |-> 0, y |-> 400], [x |-> 200, y |-> 400], FarAway }

\* the square of: Math.sqrt(Math.pow(e.clientX - cx, 2) + Math.pow(e.clientY - cy, 2))
DistanceSquared(pos, l) ==
    (pos.x - FsLinkProps[l].cx) * (pos.x - FsLinkProps[l].cx)
    + (pos.y - FsLinkProps[l].cy) * (pos.y - FsLinkProps[l].cy)

isNearStrict(pos, l) == DistanceSquared(pos, l) < prefetchDistance * prefetchDistance

\* distance <= prefetchDistance
isNear(pos, l) == DistanceSquared(pos, l) <= prefetchDistance * prefetchDistance

\* half the side of a link's element
HalfSide == 60

Abs(n) == IF n < 0 THEN -n ELSE n

\* the cursor is over the link's element
OverLink(pos, l) ==
    /\ Abs(pos.x - FsLinkProps[l].cx) <= HalfSide
    /\ Abs(pos.y - FsLinkProps[l].cy) <= HalfSide

\* targetHref.match(/\/image\/(\d+)/)
imageIdMatch(href) ==
    /\ Len(href) = 2
    /\ href[1] = "image"
    /\ href[2] \in {"1", "2", "6"}

InitFs ==
    /\ fsCursor = FarAway
    /\ fsPending = FALSE
    /\ fsNear = [l \in FsLinks |-> FALSE]
    /\ fsRoutes = [l \in FsLinks |-> FALSE]
    /\ fsClosureRoutes = [l \in FsLinks |-> FALSE]
    /\ fsSeen = [l \in FsLinks |-> {}]
    /\ fsInflight = [l \in FsLinks |-> 0]
    /\ fsDownloads = [u \in FsUrls |-> 0]
    /\ fsPrefetched = {}

\* prefetchImage(src) of the links in ls, each against its own seenImages:
\* the downloads of url afterwards
DownloadsAfter(ls, srcOf, url) ==
    LET n == Cardinality({l \in ls : srcOf[l] = url /\ url \notin fsSeen[l]})
    IN  IF fsDownloads[url] + n > MaxDownloads THEN MaxDownloads
        ELSE fsDownloads[url] + n

\* a mousemove event at pos: every link's handler cancels its scheduled frame
\* and schedules a new one; the plain link's onMouseEnter runs when the
\* cursor comes onto its element
MouseMove(pos) ==
    /\ pos # fsCursor
    /\ fsCursor' = pos
    /\ fsPending' = TRUE
    /\ fsPrefetched' = {l \in FsLinks : /\ FsLinkProps[l].version = "plain"
                                        /\ OverLink(pos, l)
                                        /\ ~OverLink(fsCursor, l)}
    /\ UNCHANGED <<fsNear, fsRoutes, fsClosureRoutes, fsSeen, fsInflight, fsDownloads>>

\* the animation frame: every link's callback processes the last position
AnimationFrame ==
    LET entering == {l \in FsLinks : isNear(fsCursor, l) /\ ~fsNear[l]}
        leaving == {l \in FsLinks : ~isNear(fsCursor, l) /\ fsNear[l]}
        withImage == {l \in entering : FsLinkProps[l].version = "image"
                                       /\ FsLinkProps[l].imageSrc # NoSrc}
        viaAPI == {l \in entering : /\ FsLinkProps[l].version = "image"
                                    /\ ~FsLinkProps[l].isBackButton
                                    /\ ~fsClosureRoutes[l]
                                    /\ imageIdMatch(FsLinkProps[l].href)}
        srcOf == [l \in FsLinks |-> FsLinkProps[l].imageSrc]
    IN  /\ fsPending
        /\ \A l \in viaAPI : fsInflight[l] < MaxInflight
        /\ fsPending' = FALSE
        /\ fsNear' = [l \in FsLinks |-> IF l \in entering THEN TRUE
                                        ELSE IF l \in leaving THEN FALSE
                                        ELSE fsNear[l]]
        /\ fsPrefetched' = entering
        /\ fsSeen' = [l \in FsLinks |-> IF l \in withImage
                                        THEN fsSeen[l] \cup {srcOf[l]} ELSE fsSeen[l]]
        /\ fsDownloads' = [u \in FsUrls |-> DownloadsAfter(withImage, srcOf, u)]
        /\ fsInflight' = [l \in FsLinks |-> IF l \in viaAPI THEN fsInflight[l] + 1
                                            ELSE fsInflight[l]]
        /\ fsClosureRoutes' = [l \in FsLinks |-> IF l \in entering \cup leaving
                                                 THEN fsRoutes[l] ELSE fsClosureRoutes[l]]
        /\ UNCHANGED <<fsCursor, fsRoutes>>

\* the API answers a link's request: on an ok response prefetchImage of
\* data.image.s3Url and setPrefetchedRoutes; otherwise nothing
ApiResponds(l, ok) ==
    LET s3Url == [k \in FsLinks |-> FsLinkProps[k].imageSrc] IN
    /\ fsInflight[l] > 0
    /\ fsInflight' = [fsInflight EXCEPT ![l] = @ - 1]
    /\ IF ok
       THEN /\ fsSeen' = [fsSeen EXCEPT ![l] = @ \cup {s3Url[l]}]
            /\ fsDownloads' = [u \in FsUrls |-> DownloadsAfter({l}, s3Url, u)]
            /\ fsRoutes' = [fsRoutes EXCEPT ![l] = TRUE]
       ELSE UNCHANGED <<fsSeen, fsDownloads, fsRoutes>>
    /\ fsPrefetched' = {}
    /\ UNCHANGED <<fsCursor, fsPending, fsNear, fsClosureRoutes>>

\* C6: no image URL is prefetched (given to a new Image as src) more than
\* once on a gallery page, also when several links carry the same imageSrc.
CexImagePrefetchedOnce == \A u \in FsUrls : fsDownloads[u] <= 1

\* a step in which the links' animation-frame callbacks run
FrameStep == fsPending /\ ~fsPending'

\* the processed position lies within prefetchDistance of the link's centre
WithinDistance(l) ==
    DistanceSquared(fsCursor, l) <= prefetchDistance * prefetchDistance

\* C7 as stated: router.prefetch(href) is issued exactly when a processed
\* mouse position lies within prefetchDistance of the link's centre and the
\* link was not already marked near.
CexPrefetchOnlyByProximity ==
    [][\A l \in FsLinks :
          l \in fsPrefetched' <=> (FrameStep /\ WithinDistance(l) /\ ~fsNear[l])]_vars

\* C7: when a position is processed, router.prefetch(href) is issued exactly
\* for the links within prefetchDistance of it that were not marked near, and
\* afterwards a link is marked near exactly if the position is within
\* prefetchDistance; outside the processing of a position only the
\* onMouseEnter of the plain link issues router.prefetch, when the cursor
\* comes onto the element.
ThmProximityPrefetch ==
    [][/\ FrameStep =>
            \A l \in FsLinks :
               /\ l \in fsPrefetched' <=> (WithinDistance(l) /\ ~fsNear[l])
               /\ fsNear'[l] <=> WithinDistance(l)
       /\ ~FrameStep =>
            \A l \in fsPrefetched' :
               /\ FsLinkProps[l].version = "plain"
               /\ OverLink(fsCursor', l) /\ ~OverLink(fsCursor, l)]_vars

\* card1 is prefetched again, at a distance of exactly 150 px, after the
\* cursor had left it and its API request had been answered
WitProximityPrefetch ==
    /\ "card1" \in fsPrefetched
    /\ ~fsPending
    /\ fsCursor = [x |-> 90, y |-> 120]
    /\ fsRoutes["card1"]

NextFs ==
    \/ \E pos \in Positions : MouseMove(pos) /\ UNCHANGED notFsVars
    \/ AnimationFrame /\ UNCHANGED notFsVars
    \/ \E l \in FsLinks, ok \in BOOLEAN : ApiResponds(l, ok) /\ UNCHANGED notFsVars

\* C28: a link that is not a back button requests /api/prefetch-images for
\* its href at most once, so it never has two requests awaiting their
\* responses, also when the cursor leaves and comes back before the first
\* response; a back button never requests it.
CexApiRequestedOnce ==
    \A l \in FsLinks :
        /\ fsInflight[l] <= 1
        /\ FsLinkProps[l].isBackButton => fsInflight[l] = 0

\* =====================================================================
\* onMouseDown of the OptimizedLink versions
\* =====================================================================
PageOrigin == "https://gallery.example"

\* hrefs: relative ones have no origin of their own
MdHrefs == { [origin |-> "", path |-> "/image/1"],
             [origin |-> "", path |-> "/"],
             [origin |-> "https://gallery.example", path |-> "/image/1"],
             [origin |-> "https://unsplash.com", path |-> "/photos/1"] }

MdVersions == {"faster-site", "faster-site-plain", "unsplash-faster"}

Buttons == 0..2

MouseEvents == [button : Buttons, altKey : BOOLEAN, ctrlKey : BOOLEAN,
                metaKey : BOOLEAN, shiftKey : BOOLEAN]

\* new URL(href, window.location.href).origin
resolvedOrigin(href) == IF href.origin = "" THEN PageOrigin ELSE href.origin

noModifierButShift(e) == ~e.altKey /\ ~e.ctrlKey /\ ~e.metaKey

\* !e.altKey && !e.ctrlKey && !e.metaKey && !e.shiftKey
noModifier(e) == ~e.altKey /\ ~e.ctrlKey /\ ~e.metaKey /\ ~e.shiftKey

\* the condition of onMouseDown
navigatesOnMouseDown(version, href, e) ==
    IF version = "unsplash-faster"
    THEN resolvedOrigin(href) = PageOrigin /\ e.button = 0 /\ noModifier(e)
    ELSE e.button = 0 /\ noModifier(e)

NoEvent == [button |-> -1]

NoLink == [version |-> "none"]

InitMd ==
    /\ mdLink = NoLink
    /\ mdEvent = NoEvent
    /\ mdOutcome = [preventDefault |-> FALSE, pushed |-> "none"]

\* onMouseDown(e) of a link
MouseDown(version, href, e) ==
    /\ mdLink' = [version |-> version, href |-> href]
    /\ mdEvent' = e
    /\ mdOutcome' = IF navigatesOnMouseDown(version, href, e)
                    THEN [preventDefault |-> TRUE, pushed |-> href.path]
                    ELSE [preventDefault |-> FALSE, pushed |-> "none"]

NextMd ==
    \E version \in MdVersions, href \in MdHrefs, e \in MouseEvents :
        MouseDown(version, href, e) /\ UNCHANGED notMdVars

\* C8: onMouseDown calls preventDefault and router.push(href) if and only if
\* the button is 0 and none of alt, ctrl, meta, shift is held and, for the
\* unsplash-faster link, href resolves to the page's origin; otherwise it
\* does neither.
ThmMouseDownNavigation ==
    mdLink # NoLink =>
        LET plainClick == /\ mdEvent.button = 0
                          /\ ~mdEvent.altKey /\ ~mdEvent.ctrlKey
                          /\ ~mdEvent.metaKey /\ ~mdEvent.shiftKey
            sameOrigin == mdLink.href.origin \in {"", PageOrigin}
            expected == IF mdLink.version = "unsplash-faster"
                        THEN plainClick /\ sameOrigin ELSE plainClick
        IN  /\ mdOutcome.preventDefault <=> expected
            /\ mdOutcome.pushed # "none" <=> expected
            /\ expected => mdOutcome.pushed = mdLink.href.path

\* a plain left click on an unsplash-faster link to another origin is left
\* to the browser
WitMouseDownNavigation ==
    /\ mdLink # NoLink
    /\ mdLink.version = "unsplash-faster"
    /\ mdLink.href.origin = "https://unsplash.com"
    /\ mdEvent = [button |-> 0, altKey |-> FALSE, ctrlKey |-> FALSE,
                  metaKey |-> FALSE, shiftKey |-> FALSE]
    /\ mdOutcome.pushed = "none"

\* =====================================================================
\* unsplash-faster SearchBar.  Time advances in steps of 100 ms; a due
\* timer runs before the next step; at most one keystroke per step.
\* =====================================================================
\* setTimeout(..., 500), in steps of 100 ms
SearchDelay == 5

\* searchParams.get('q') === null
NoQ == <<"null">>

TypedChars == {"a", " "}

\* the q of the URL handleSearch(value) pushes: /search?q=<trimmed>, or /
pushedQ(value) == IF trim(value) # <<>> THEN trim(value) ELSE NoQ

NoPush == [origin |-> "none"]

InitSb ==
    /\ sbValue = <<>>
    /\ sbQ = NoQ
    /\ sbTimers = {}
    /\ sbPending = FALSE
    /\ sbTarget = NoQ
    /\ sbTyped = FALSE
    /\ sbBurstPushes = 0
    /\ sbLast = NoPush

\* handleInputChange: setSearchValue(value) and a new 500 ms timer; the
\* function it returns is not called by anyone, so no timer is cleared
HandleInputChange(value) ==
    /\ ~sbPending
    /\ ~sbTyped
    /\ value # sbValue
    /\ Cardinality(sbTimers) < MaxTimers
    /\ sbValue' = value
    /\ sbTimers' = {[t EXCEPT !.followed = TRUE] : t \in sbTimers}
                   \cup {[left |-> SearchDelay, value |-> value, q |-> sbQ, followed |-> FALSE]}
    /\ sbTyped' = TRUE
    /\ sbBurstPushes' = IF sbTimers = {} THEN 0 ELSE sbBurstPushes
    /\ UNCHANGED <<sbQ, sbPending, sbTarget, sbLast>>

\* the values one keystroke can turn the input's text into
Keystrokes(value) ==
    {Append(value, c) : c \in IF Len(value) < MaxTyped THEN TypedChars ELSE {}}
    \cup (IF value # <<>> THEN {SubSeq(value, 1, Len(value) - 1)} ELSE {})

\* a timer fires: if (value !== searchParams.get('q')) handleSearch(value)
SearchTimerFires(t) ==
    /\ t \in sbTimers
    /\ t.left = 0
    /\ sbTimers' = sbTimers \ {t}
    /\ IF t.value # t.q
       THEN /\ sbPending' = TRUE
            /\ sbTarget' = pushedQ(t.value)
            /\ sbBurstPushes' = IF sbBurstPushes < MaxPushes THEN sbBurstPushes + 1
                                ELSE sbBurstPushes
            /\ sbLast' = [origin |-> "timer", value |-> t.value, followed |-> t.followed]
       ELSE UNCHANGED <<sbPending, sbTarget, sbBurstPushes, sbLast>>
    /\ UNCHANGED <<sbValue, sbQ, sbTyped>>

\* handleSubmit: handleSearch(searchValue)
HandleSubmit ==
    /\ ~sbPending
    /\ sbPending' = TRUE
    /\ sbTarget' = pushedQ(sbValue)
    /\ sbLast' = [origin |-> "submit", value |-> sbValue, followed |-> FALSE]
    /\ UNCHANGED <<sbValue, sbQ, sbTimers, sbTyped, sbBurstPushes>>

\* the clear button: setSearchValue(''); handleSearch('')
HandleClear ==
    /\ ~sbPending
    /\ sbValue # <<>>
    /\ sbValue' = <<>>
    /\ sbPending' = TRUE
    /\ sbTarget' = pushedQ(<<>>)
    /\ sbLast' = [origin |-> "clear", value |-> <<>>, followed |-> FALSE]
    /\ UNCHANGED <<sbQ, sbTimers, sbTyped, sbBurstPushes>>

\* the navigation ends: the URL is the last one pushed, the transition over
NavigationCompletes ==
    /\ sbPending
    /\ sbQ' = sbTarget
    /\ sbPending' = FALSE
    /\ UNCHANGED <<sbValue, sbTimers, sbTarget, sbTyped, sbBurstPushes, sbLast>>

\* 100 ms pass
SearchTick ==
    /\ \A t \in sbTimers : t.left > 0
    /\ sbTimers' = {[t EXCEPT !.left = @ - 1] : t \in sbTimers}
    /\ sbTyped' = FALSE
    /\ UNCHANGED <<sbValue, sbQ, sbPending, sbTarget, sbBurstPushes, sbLast>>

NextSb ==
    \/ \E value \in Keystrokes(sbValue) : HandleInputChange(value) /\ UNCHANGED notSbVars
    \/ \E t \in sbTimers : SearchTimerFires(t) /\ UNCHANGED notSbVars
    \/ HandleSubmit /\ UNCHANGED notSbVars
    \/ HandleClear /\ UNCHANGED notSbVars
    \/ NavigationCompletes /\ UNCHANGED notSbVars
    \/ SearchTick /\ UNCHANGED notSbVars

\* C10: a keystroke leads to router.push only if no keystroke followed it
\* within 500 ms; the timers of one burst of keystrokes push at most once.
CexSearchDebounced ==
    /\ sbLast.origin = "timer" => ~sbLast.followed
    /\ sbBurstPushes <= 1

\* =====================================================================
\* faster-site SearchBar and its debounce utility.  Time advances in steps
\* of 100 ms; a due timer runs before the next step; at most one input
\* change per step.
\* =====================================================================
\* debounce(..., 300), in steps of 100 ms
DebounceWait == 3

NoValue == <<"none">>

\* encodeURIComponent, per character
EncodeChar(c) == IF c = " " THEN "%20" ELSE c

encodeURIComponent(str) == [i \in DOMAIN str |-> EncodeChar(str[i])]

\* the URL the debounced handler pushes for searchQuery
debouncedUrl(searchQuery) ==
    IF Len(trim(searchQuery)) > 0
    THEN [path |-> "/search", q |-> encodeURIComponent(trim(searchQuery))]
    ELSE [path |-> "/", q |-> <<>>]

timersKept(timers) == timers

\* clearTimeout(timeout): the one timer the closure refers to
timersAfterClear(timers) == {}

InitDq ==
    /\ dqQuery = <<>>
    /\ dqTimers = {}
    /\ dqLastValue = NoValue
    /\ dqSince = DebounceWait
    /\ dqTyped = FALSE
    /\ dqBurstNavs = 0
    /\ dqLast = [origin |-> "none"]
    /\ dqAction = "none"

\* handleInputChange: setQuery(newQuery); debouncedSearch(newQuery), which
\* clears the pending timer and sets a new one
DqInputChange(newQuery) ==
    /\ ~dqTyped
    /\ newQuery # dqQuery
    /\ Cardinality(timersAfterClear(dqTimers)) < MaxTimers
    /\ dqQuery' = newQuery
    /\ dqTimers' = timersAfterClear(dqTimers)
                   \cup {[left |-> DebounceWait, arg |-> newQuery]}
    /\ dqLastValue' = newQuery
    /\ dqSince' = 0
    /\ dqTyped' = TRUE
    /\ dqBurstNavs' = IF dqTimers = {} THEN 0 ELSE dqBurstNavs
    /\ dqAction' = "change"
    /\ UNCHANGED dqLast

\* a timer of debounce fires: func(...args), the debounced handler
DqTimerFires(t) ==
    /\ t \in dqTimers
    /\ t.left = 0
    /\ dqTimers' = dqTimers \ {t}
    /\ dqBurstNavs' = IF dqBurstNavs < MaxPushes THEN dqBurstNavs + 1 ELSE dqBurstNavs
    /\ dqLast' = [origin |-> "debounce", url |-> debouncedUrl(t.arg), arg |-> t.arg,
                  lastChange |-> dqLastValue, since |-> dqSince]
    /\ UNCHANGED <<dqQuery, dqLastValue, dqSince, dqTyped, dqAction>>

\* handleSubmit: router.push for a non-blank query; the timer is left alone
DqSubmit ==
    /\ Len(trim(dqQuery)) > 0
    /\ dqLast' = [origin |-> "submit",
                  url |-> [path |-> "/search", q |-> encodeURIComponent(trim(dqQuery))]]
    /\ dqAction' = "submit"
    /\ UNCHANGED <<dqQuery, dqTimers, dqLastValue, dqSince, dqTyped, dqBurstNavs>>

\* clearSearch: setQuery(''); router.push('/'); the timer is left alone
DqClear ==
    /\ dqQuery # <<>>
    /\ dqQuery' = <<>>
    /\ dqLast' = [origin |-> "clear", url |-> [path |-> "/", q |-> <<>>]]
    /\ dqAction' = "clear"
    /\ UNCHANGED <<dqTimers, dqLastValue, dqSince, dqTyped, dqBurstNavs>>

\* 100 ms pass
DqTick ==
    /\ \A t \in dqTimers : t.left > 0
    /\ dqTimers' = {[t EXCEPT !.left = @ - 1] : t \in dqTimers}
    /\ dqSince' = IF dqSince < DebounceWait THEN dqSince + 1 ELSE dqSince
    /\ dqTyped' = FALSE
    /\ UNCHANGED <<dqQuery, dqLastValue, dqBurstNavs, dqLast, dqAction>>

NextDq ==
    \/ \E newQuery \in Keystrokes(dqQuery) : DqInputChange(newQuery) /\ UNCHANGED notDqVars
    \/ \E t \in dqTimers : DqTimerFires(t) /\ UNCHANGED notDqVars
    \/ DqSubmit /\ UNCHANGED notDqVars
    \/ DqClear /\ UNCHANGED notDqVars
    \/ DqTick /\ UNCHANGED notDqVars

\* C11: the debounced handler navigates only 300 ms after the last input
\* change, with the value of that change: to /search?q=<trimmed value>, or to
\* / when it is blank; a burst of changes less than 300 ms apart leads to
\* exactly one such navigation: while the burst lasts one timer is pending,
\* for the last value, and once it is over the navigation has happened once.
ThmDebouncedNavigation ==
    /\ dqLast.origin = "debounce" =>
          /\ dqLast.since = 3
          /\ dqLast.arg = dqLast.lastChange
          /\ dqLast.url = IF trim(dqLast.lastChange) = <<>>
                          THEN [path |-> "/", q |-> <<>>]
                          ELSE [path |-> "/search",
                                q |-> encodeURIComponent(trim(dqLast.lastChange))]
    /\ dqBurstNavs <= 1
    /\ dqTimers # {} =>
          /\ dqTimers = {[left |-> 3 - dqSince, arg |-> dqLastValue]}
          /\ dqBurstNavs = 0
    /\ (dqTimers = {} /\ dqLastValue # NoValue) => dqBurstNavs = 1

\* the last input change left a blank value and, 300 ms later, the handler
\* has navigated once, to /
WitDebouncedNavigation ==
    /\ dqLast.origin = "debounce"
    /\ dqLast.url.path = "/"
    /\ dqLast.arg = <<" ">>
    /\ dqBurstNavs = 1

\* C27: once the user has cleared the search or submitted the form, no
\* navigation that an earlier input change scheduled happens: until the next
\* input change the last navigation is the one of the clear (to /) or of
\* the submit.
CexClearAndSubmitCancel ==
    /\ dqAction = "clear" =>
          dqLast.origin = "clear" /\ dqLast.url = [path |-> "/", q |-> <<>>]
    /\ (dqAction = "submit" /\ Len(trim(dqQuery)) > 0) => dqLast.origin = "submit"

\* =====================================================================
\* faster-site back navigation: GET /api/prefetch-images (listings),
\* BackNavigationPreloader, GalleryScrollRestoration
\* =====================================================================
\* the gallery of n images, by id
Gallery(n) == [k \in 1..n |-> 100 + k]

Galleries == {Gallery(n) : n \in 0..MaxImages}

Min(a, b) == IF a < b THEN a ELSE b

Max(a, b) == IF a > b THEN a ELSE b

\* Array.prototype.slice(start, end) for 0 <= start: the elements at the
\* 0-based indexes start .. min(end, length) - 1
slice(list, start, end) ==
    IF start >= Min(end, Len(list)) THEN <<>>
    ELSE SubSeq(list, start + 1, Min(end, Len(list)))

floorDiv(n, limit) == n \div limit

\* Math.ceil(n / limit)
ceilDiv(n, limit) == (n + limit - 1) \div limit

\* parseInt(searchParams.get('limit') || '20')
DefaultLimit == 20

\* the category and the default listing: slice(startIndex, endIndex) of
\* getImages(category), totalImages, totalPages
listingResponse(list, page, limit) ==
    LET startIndex == (page - 1) * limit
        endIndex == startIndex + limit
    IN  [images |-> slice(list, startIndex, endIndex),
         page |-> page,
         totalImages |-> Len(list),
         totalPages |-> ceilDiv(Len(list), limit)]

\* Array.prototype.findIndex(img => img.id === id): 0-based, -1 if absent
findIndex(list, id) ==
    IF \E k \in DOMAIN list : list[k] = id
    THEN (CHOOSE k \in DOMAIN list : list[k] = id /\ \A j \in 1..(k - 1) : list[j] # id) - 1
    ELSE -1

NoId == 0

NoItem == <<"null">>

\* Number.prototype.toString for 0 <= n < 1000
Digit(d) == CASE d = 0 -> "0" [] d = 1 -> "1" [] d = 2 -> "2" [] d = 3 -> "3"
              [] d = 4 -> "4" [] d = 5 -> "5" [] d = 6 -> "6" [] d = 7 -> "7"
              [] d = 8 -> "8" [] d = 9 -> "9"

toString(n) ==
    IF n < 10 THEN <<Digit(n)>>
    ELSE IF n < 100 THEN <<Digit(n \div 10), Digit(n % 10)>>
    ELSE <<Digit(n \div 100), Digit((n \div 10) % 10), Digit(n % 10)>>

DigitValue(c) == CHOOSE d \in 0..9 : Digit(d) = c

\* parseInt of a string of digits
RECURSIVE parseInt(_)
parseInt(str) ==
    IF Len(str) = 1 THEN DigitValue(str[1])
    ELSE 10 * parseInt(SubSeq(str, 1, Len(str) - 1)) + DigitValue(str[Len(str)])

\* const prefetchRadius = 7
prefetchRadius == 7

\* data.images.slice(0, 8)
FallbackCount == 8

\* setTimeout(..., index * 50)
StaggerMs == 50

scheduledLate(startIndex, endIndex) ==
    [k \in 1..Max(0, endIndex - startIndex) |->
        [index |-> startIndex + k - 1, delay |-> k * StaggerMs]]

\* imagesToPrefetch.forEach((image, index) => setTimeout(..., index * 50)):
\* the preloads of the images at startIndex .. endIndex - 1
scheduled(startIndex, endIndex) ==
    [k \in 1..Max(0, endIndex - startIndex) |->
        [index |-> startIndex + k - 1, delay |-> (k - 1) * StaggerMs]]

InitBn ==
    /\ bnStage = "none"
    /\ bnGallery = <<>>
    /\ bnCurrent = NoId
    /\ bnBranch = "none"
    /\ bnScheduled = <<>>
    /\ sessionStorage = [position |-> NoItem, imageId |-> NoItem]
    /\ grStage = "none"
    /\ grImages = <<>>
    /\ grLast = [found |-> "none"]

\* an image detail page is shown: the preloader mounts and sets its timer
OpenDetailPage(gallery, currentImageId) ==
    /\ bnStage = "none"
    /\ grStage = "none"
    /\ bnStage' = "timer"
    /\ bnGallery' = gallery
    /\ bnCurrent' = currentImageId
    /\ bnBranch' = "none"
    /\ bnScheduled' = <<>>
    /\ UNCHANGED <<sessionStorage, grStage, grImages, grLast>>

\* the 500 ms timer fires: router.prefetch(galleryUrl), fetch(apiUrl)
PreloaderTimerFires ==
    /\ bnStage = "timer"
    /\ bnStage' = "fetching"
    /\ UNCHANGED <<bnGallery, bnCurrent, bnBranch, bnScheduled,
                   sessionStorage, grStage, grImages, grLast>>

\* the response arrives; ok = FALSE stands for an error status or a failed
\* fetch, after which nothing is scheduled and isPrefetched stays false
PreloaderResponse(ok) ==
    LET images == listingResponse(bnGallery, 1, DefaultLimit).images
        currentImageIndex == findIndex(images, bnCurrent)
        startIndex == Max(0, currentImageIndex - prefetchRadius)
        endIndex == Min(Len(images), currentImageIndex + prefetchRadius + 1)
    IN  /\ bnStage \in {"fetching", "fetching-left"}
        /\ bnStage' = IF bnStage = "fetching-left" THEN "left-done"
                      ELSE IF ok THEN "done" ELSE "failed"
        /\ IF ~ok
           THEN /\ bnBranch' = "failed"
                /\ UNCHANGED <<bnScheduled, sessionStorage>>
           ELSE IF bnCurrent # NoId /\ currentImageIndex >= 0
           THEN /\ bnBranch' = "around"
                /\ bnScheduled' = scheduled(startIndex, endIndex)
                /\ sessionStorage' = [position |-> toString(currentImageIndex),
                                      imageId |-> toString(bnCurrent)]
           ELSE /\ bnBranch' = IF bnCurrent = NoId THEN "no-id" ELSE "not-found"
                /\ bnScheduled' = scheduled(0, Min(FallbackCount, Len(images)))
                /\ UNCHANGED sessionStorage
        /\ UNCHANGED <<bnGallery, bnCurrent, grStage, grImages, grLast>>

\* the detail page goes away: the cleanup clears the 500 ms timer; a
\* request under way goes on with the props of its closure
preloaderUnmounted ==
    /\ bnStage \in {"timer", "fetching", "done", "failed"}
    /\ bnStage' = IF bnStage = "fetching" THEN "fetching-left" ELSE "none"
    /\ bnGallery' = IF bnStage = "fetching" THEN bnGallery ELSE <<>>
    /\ bnCurrent' = IF bnStage = "fetching" THEN bnCurrent ELSE NoId
    /\ bnBranch' = "none"
    /\ bnScheduled' = <<>>

\* the user leaves the detail page for a page other than the gallery
LeaveDetailPage ==
    /\ preloaderUnmounted
    /\ UNCHANGED <<sessionStorage, grStage, grImages, grLast>>

\* the preloads scheduled by a response that came after the page was left
\* have run
PreloadsRun ==
    /\ bnStage = "left-done"
    /\ bnStage' = "none"
    /\ bnGallery' = <<>>
    /\ bnCurrent' = NoId
    /\ bnBranch' = "none"
    /\ bnScheduled' = <<>>
    /\ UNCHANGED <<sessionStorage, grStage, grImages, grLast>>

\* a string read from sessionStorage is truthy
Truthy(item) == item # NoItem /\ item # <<>>

NoScroll == -1

imagesPerRow == 4

cardHeight == 280

gap == 24

headerHeight == 120

\* headerHeight + Math.floor(index / imagesPerRow) * (cardHeight + gap)
scrollY(index) == headerHeight + (index \div imagesPerRow) * (cardHeight + gap)

keysKept(storage) == storage

\* removeItem('gallery_return_position'); removeItem('gallery_return_image_id')
keysRemoved(storage) == [position |-> NoItem, imageId |-> NoItem]

\* the gallery page is shown with its images: the 100 ms timer is set
GalleryMount(images) ==
    /\ grStage = "none"
    /\ bnStage \in {"none", "fetching-left", "left-done"}
    /\ grStage' = "timer"
    /\ grImages' = images
    /\ UNCHANGED <<bnStage, bnGallery, bnCurrent, bnBranch, bnScheduled,
                   sessionStorage, grLast>>

\* the user goes back from the detail page to its gallery: the detail page
\* goes away and the gallery page is shown in one commit
BackToGallery(images) ==
    /\ grStage = "none"
    /\ preloaderUnmounted
    /\ grStage' = "timer"
    /\ grImages' = images
    /\ UNCHANGED <<sessionStorage, grLast>>

\* restoreScrollPosition; throws = TRUE: window.scrollTo throws
RestoreScrollPosition(throws) ==
    LET returnPosition == sessionStorage.position
        returnImageId == sessionStorage.imageId
        both == Truthy(returnPosition) /\ Truthy(returnImageId)
        imageId == parseInt(returnImageId)
        position == parseInt(returnPosition)
        atPosition == position < Len(grImages) /\ grImages[position + 1] = imageId
        actualIndex == findIndex(grImages, imageId)
    IN  /\ grStage = "timer"
        /\ grStage' = "ran"
        /\ IF ~both
           THEN /\ grLast' = [found |-> "no-keys", scrolledTo |-> NoScroll]
                /\ UNCHANGED sessionStorage
           ELSE IF atPosition
           THEN /\ grLast' = IF throws THEN [found |-> "threw", scrolledTo |-> NoScroll]
                             ELSE [found |-> "at-index", scrolledTo |-> scrollY(position)]
                /\ sessionStorage' = keysRemoved(sessionStorage)
           ELSE IF actualIndex >= 0
           THEN /\ grLast' = IF throws THEN [found |-> "threw", scrolledTo |-> NoScroll]
                             ELSE [found |-> "moved", scrolledTo |-> scrollY(actualIndex)]
                /\ sessionStorage' = keysRemoved(sessionStorage)
           ELSE /\ grLast' = [found |-> "absent", scrolledTo |-> NoScroll]
                /\ sessionStorage' = keysRemoved(sessionStorage)
        /\ UNCHANGED <<bnStage, bnGallery, bnCurrent, bnBranch, bnScheduled, grImages>>

\* the images or the category change before the timer has fired: the
\* cleanup clears it and the effect sets a new one (hasRestoredRef is false)
ImagesChange(images) ==
    /\ grStage = "timer"
    /\ images # grImages
    /\ grImages' = images
    /\ UNCHANGED <<bnStage, bnGallery, bnCurrent, bnBranch, bnScheduled,
                   sessionStorage, grStage, grLast>>

\* the gallery page is left: the cleanup clears a pending timer
GalleryUnmount ==
    /\ grStage \in {"timer", "ran"}
    /\ grStage' = "none"
    /\ grImages' = <<>>
    /\ grLast' = [found |-> "none"]
    /\ UNCHANGED <<bnStage, bnGallery, bnCurrent, bnBranch, bnScheduled, sessionStorage>>

\* the images a detail page can be about: none given, one of the gallery,
\* one that is not in it
CurrentIds(gallery) == {NoId, 100 + Len(gallery) + 1} \cup {gallery[k] : k \in DOMAIN gallery}

\* the lists getImages(category) can give the gallery page: the one the
\* detail page's listing was taken from, that one after a newer image has
\* been put in front, and the empty one of another category
RenderedGalleries == {bnGallery, <<100>> \o bnGallery, <<>>}

NextBn ==
    \/ \E gallery \in Galleries : \E id \in CurrentIds(gallery) :
          OpenDetailPage(gallery, id) /\ UNCHANGED notBnVars
    \/ PreloaderTimerFires /\ UNCHANGED notBnVars
    \/ \E ok \in BOOLEAN : PreloaderResponse(ok) /\ UNCHANGED notBnVars
    \/ LeaveDetailPage /\ UNCHANGED notBnVars
    \/ PreloadsRun /\ UNCHANGED notBnVars
    \/ \E images \in RenderedGalleries : BackToGallery(images) /\ UNCHANGED notBnVars
    \/ \E images \in RenderedGalleries : GalleryMount(images) /\ UNCHANGED notBnVars
    \/ \E images \in RenderedGalleries : ImagesChange(images) /\ UNCHANGED notBnVars
    \/ \E throws \in BOOLEAN : RestoreScrollPosition(throws) /\ UNCHANGED notBnVars
    \/ GalleryUnmount /\ UNCHANGED notBnVars

\* the number of images the API response lists to the preloader
ListedCount == Min(Len(bnGallery), 20)

\* the 0-based index of the current image in Gallery(n), whose ids are 101..
CurrentIndex == bnCurrent - 101

\* C12: with the current image found at index i among the n listed images
\* the preloads scheduled are those of the indexes max(0, i-7) .. min(n-1,
\* i+7), at most 15 and with i among them, the k-th after k*50 ms; with the
\* image not found or no id given they are those of the first min(8, n).
ThmPreloadWindow ==
    LET n == ListedCount
        i == CurrentIndex
        lo == IF i - 7 > 0 THEN i - 7 ELSE 0
        hi == IF i + 7 < n - 1 THEN i + 7 ELSE n - 1
        first == IF n < 8 THEN n ELSE 8
    IN  /\ bnBranch = "around" =>
              /\ bnCurrent # NoId /\ 0 <= i /\ i < n
              /\ Len(bnScheduled) = hi - lo + 1
              /\ Len(bnScheduled) <= 15
              /\ \A k \in DOMAIN bnScheduled :
                    bnScheduled[k] = [index |-> lo + k - 1, delay |-> (k - 1) * 50]
              /\ \E k \in DOMAIN bnScheduled : bnScheduled[k].index = i
        /\ bnBranch \in {"no-id", "not-found"} =>
              /\ bnCurrent = NoId \/ i < 0 \/ i >= n
              /\ Len(bnScheduled) = first
              /\ \A k \in DOMAIN bnScheduled :
                    bnScheduled[k] = [index |-> k - 1, delay |-> (k - 1) * 50]

\* the current image sits in the middle of 20 listed images: 15 preloads,
\* the window cut at neither end
WitPreloadWindow ==
    /\ bnBranch = "around"
    /\ ListedCount = 20
    /\ CurrentIndex = 9
    /\ Len(bnScheduled) = 15
    /\ bnScheduled[1].index = 2

\* C13: when the preloader has finished on the detail page of an image of
\* the gallery, sessionStorage holds the image's index in that gallery and
\* its id.
CexReturnPositionStored ==
    (bnStage = "done" /\ \E k \in DOMAIN bnGallery : bnGallery[k] = bnCurrent) =>
        sessionStorage = [position |-> toString(CurrentIndex),
                          imageId |-> toString(bnCurrent)]

\* a step in which restoreScrollPosition runs
RestoreStep == grStage = "timer" /\ grStage' = "ran"

\* C14: a run of restoreScrollPosition that finds both keys leaves neither
\* in sessionStorage, whatever it finds in the list and also when scrollTo
\* throws, and scrolls at most to the image's row; a run that misses a key
\* does not scroll and leaves sessionStorage as it is.
ThmReturnKeysRemoved ==
    [][RestoreStep =>
          IF sessionStorage.position # NoItem /\ sessionStorage.imageId # NoItem
          THEN /\ sessionStorage' = [position |-> NoItem, imageId |-> NoItem]
               /\ grLast'.found \in {"at-index", "moved", "absent", "threw"}
               /\ grLast'.found \in {"absent", "threw"} => grLast'.scrolledTo = NoScroll
          ELSE /\ sessionStorage' = sessionStorage
               /\ grLast'.scrolledTo = NoScroll]_vars

\* the stored image was found one place further down, the page scrolled to
\* its row and both keys are gone
WitReturnKeysRemoved ==
    /\ grStage = "ran"
    /\ grLast.found = "moved"
    /\ grLast.scrolledTo = scrollY(4)
    /\ sessionStorage = [position |-> NoItem, imageId |-> NoItem]

\* GET /api/prefetch-images?page=..&limit=.. (category or default listing)
ApiListing(list, page, limit) ==
    apiLast' = listingResponse(list, page, limit) @@ [list |-> list, limit |-> limit]

InitApi ==
    apiLast = [images |-> <<>>, page |-> 0, totalImages |-> 0, totalPages |-> 0,
               list |-> <<>>, limit |-> 1]

NextApi ==
    \E list \in Galleries, page \in 1..MaxPage, limit \in (1..MaxLimit) \cup {DefaultLimit} :
        ApiListing(list, page, limit) /\ UNCHANGED notApiVars

\* =====================================================================
\* faster-site GalleryCacheWarmer (time in seconds)
\* =====================================================================
\* the categories other than currentCategory that the category list names
OtherCategories == {"nature", "city"}

\* imagesPerLoad = 20
imagesPerLoad == 20

\* setTimeout(warmNextPage, 2000)
NextPageDelay == 2

\* setTimeout(warmOtherCategories, 5000)
OtherCategoriesDelay == 5

\* Math.random() * 2000, in whole seconds
RandomDelays == 0..2

NoSlug == "none"

Timer(kind, due, pages, cats, slug) ==
    [kind |-> kind, due |-> due, pages |-> pages, cats |-> cats, slug |-> slug]

Fetch(kind, cats, slug) == [kind |-> kind, cats |-> cats, slug |-> slug]

\* a counter that stops at MaxWarmRequests
CountUp(n) == IF n < MaxWarmRequests THEN n + 1 ELSE n

\* the body of the effect with the state (pages, cats) in its closures:
\* startCacheWarming if currentPage === 1 && totalPages > 1
effectTimers(totalImages, now, pages, cats) ==
    IF ceilDiv(totalImages, imagesPerLoad) > 1
    THEN SetToBag({Timer("page", now + NextPageDelay, pages, {}, NoSlug),
                   Timer("categories", now + OtherCategoriesDelay, {}, cats, NoSlug)})
    ELSE EmptyBag

InitGw ==
    /\ gwMounted = FALSE
    /\ gwTotalImages = 0
    /\ gwNow = 0
    /\ gwTimers = EmptyBag
    /\ gwFetches = EmptyBag
    /\ warmedPages = {}
    /\ warmedCategories = {}
    /\ gwPageRequests = 0
    /\ gwCategoryRequests = [c \in OtherCategories |-> 0]

\* the gallery page mounts the warmer with currentPage = 1
GwMount(totalImages) ==
    /\ ~gwMounted
    /\ gwMounted' = TRUE
    /\ gwTotalImages' = totalImages
    /\ gwTimers' = effectTimers(totalImages, gwNow, {}, {})
    /\ UNCHANGED <<gwNow, gwFetches, warmedPages, warmedCategories,
                   gwPageRequests, gwCategoryRequests>>

\* warmNextPage runs with the warmedPages of the effect run that set it
WarmNextPage(t) ==
    /\ BagIn(t, gwTimers) /\ t.kind = "page" /\ t.due = gwNow
    /\ gwTimers' = gwTimers (-) SetToBag({t})
    /\ IF 2 \notin t.pages
       THEN /\ gwFetches' = gwFetches (+) SetToBag({Fetch("page", {}, NoSlug)})
            /\ gwPageRequests' = CountUp(gwPageRequests)
       ELSE UNCHANGED <<gwFetches, gwPageRequests>>
    /\ UNCHANGED <<gwMounted, gwTotalImages, gwNow, warmedPages, warmedCategories,
                   gwCategoryRequests>>

\* the response for page 2 arrives; ok: setWarmedPages and the effect re-runs
PageResponse(f, ok) ==
    /\ BagIn(f, gwFetches) /\ f.kind = "page"
    /\ gwFetches' = gwFetches (-) SetToBag({f})
    /\ IF ok
       THEN /\ warmedPages' = warmedPages \cup {2}
            /\ gwTimers' = gwTimers (+)
                  effectTimers(gwTotalImages, gwNow, warmedPages \cup {2}, warmedCategories)
       ELSE UNCHANGED <<warmedPages, gwTimers>>
    /\ UNCHANGED <<gwMounted, gwTotalImages, gwNow, warmedCategories,
                   gwPageRequests, gwCategoryRequests>>

\* warmOtherCategories runs: fetch('/api/prefetch-images?type=categories')
WarmOtherCategories(t) ==
    /\ BagIn(t, gwTimers) /\ t.kind = "categories" /\ t.due = gwNow
    /\ gwTimers' = gwTimers (-) SetToBag({t})
    /\ gwFetches' = gwFetches (+) SetToBag({Fetch("categories", t.cats, NoSlug)})
    /\ UNCHANGED <<gwMounted, gwTotalImages, gwNow, warmedPages, warmedCategories,
                   gwPageRequests, gwCategoryRequests>>

\* the category list arrives: a timer with a random delay for every other
\* category that the warmedCategories of the closure does not hold
RECURSIVE categoryTimers(_, _, _)
categoryTimers(slugs, now, delay) ==
    IF slugs = {} THEN EmptyBag
    ELSE LET c == CHOOSE c \in slugs : TRUE
         IN  SetToBag({Timer("category", now + delay[c], {}, {}, c)})
             (+) categoryTimers(slugs \ {c}, now, delay)

CategoriesResponse(f, ok, delay) ==
    /\ BagIn(f, gwFetches) /\ f.kind = "categories"
    /\ gwFetches' = gwFetches (-) SetToBag({f})
    /\ gwTimers' = IF ok
                   THEN gwTimers (+) categoryTimers(OtherCategories \ f.cats, gwNow, delay)
                   ELSE gwTimers
    /\ UNCHANGED <<gwMounted, gwTotalImages, gwNow, warmedPages, warmedCategories,
                   gwPageRequests, gwCategoryRequests>>

\* a category's timer fires: fetch(`/api/prefetch-images?category=${slug}`)
WarmCategory(t) ==
    /\ BagIn(t, gwTimers) /\ t.kind = "category" /\ t.due = gwNow
    /\ gwTimers' = gwTimers (-) SetToBag({t})
    /\ gwFetches' = gwFetches (+) SetToBag({Fetch("category", {}, t.slug)})
    /\ gwCategoryRequests' =
          [gwCategoryRequests EXCEPT ![t.slug] = CountUp(gwCategoryRequests[t.slug])]
    /\ UNCHANGED <<gwMounted, gwTotalImages, gwNow, warmedPages, warmedCategories,
                   gwPageRequests>>

\* a category's images arrive; ok: setWarmedCategories and the effect re-runs
CategoryResponse(f, ok) ==
    /\ BagIn(f, gwFetches) /\ f.kind = "category"
    /\ gwFetches' = gwFetches (-) SetToBag({f})
    /\ IF ok
       THEN /\ warmedCategories' = warmedCategories \cup {f.slug}
            /\ gwTimers' = gwTimers (+)
                  effectTimers(gwTotalImages, gwNow, warmedPages,
                               warmedCategories \cup {f.slug})
       ELSE UNCHANGED <<warmedCategories, gwTimers>>
    /\ UNCHANGED <<gwMounted, gwTotalImages, gwNow, warmedPages,
                   gwPageRequests, gwCategoryRequests>>

\* a second passes once every timer that is due has run
GwTick ==
    /\ gwMounted
    /\ gwNow < MaxWarmTime
    /\ \A t \in BagToSet(gwTimers) : t.due # gwNow
    /\ gwNow' = gwNow + 1
    /\ UNCHANGED <<gwMounted, gwTotalImages, gwTimers, gwFetches, warmedPages,
                   warmedCategories, gwPageRequests, gwCategoryRequests>>

NextGw ==
    \/ \E totalImages \in {20, 40} : GwMount(totalImages) /\ UNCHANGED notGwVars
    \/ \E t \in BagToSet(gwTimers) : WarmNextPage(t) /\ UNCHANGED notGwVars
    \/ \E f \in BagToSet(gwFetches), ok \in BOOLEAN :
          PageResponse(f, ok) /\ UNCHANGED notGwVars
    \/ \E t \in BagToSet(gwTimers) : WarmOtherCategories(t) /\ UNCHANGED notGwVars
    \/ \E f \in BagToSet(gwFetches), ok \in BOOLEAN :
       \E delay \in [OtherCategories -> RandomDelays] :
          CategoriesResponse(f, ok, delay) /\ UNCHANGED notGwVars
    \/ \E t \in BagToSet(gwTimers) : WarmCategory(t) /\ UNCHANGED notGwVars
    \/ \E f \in BagToSet(gwFetches), ok \in BOOLEAN :
          CategoryResponse(f, ok) /\ UNCHANGED notGwVars
    \/ GwTick /\ UNCHANGED notGwVars

\* C15: during one mount page 2 is requested at most once and every other
\* category is requested at most once.
CexWarmedOnce ==
    /\ gwPageRequests <= 1
    /\ \A c \in OtherCategories : gwCategoryRequests[c] <= 1

\* =====================================================================
\* faster-site GET /api/search
\* =====================================================================
\* query.length > 100
MaxQueryLength == 100

\* searchParams.get('q') === null
MissingQuery == <<"null">>

Repeat(c, n) == [i \in 1..n |-> c]

\* the queries sent: a run of letters, short or about MaxQueryLength long,
\* between runs of spaces
QueryBodies == (0..MaxShort) \cup ((MaxQueryLength - MaxOver)..(MaxQueryLength + MaxOver))

Queries ==
    {Repeat(" ", l) \o Repeat("a", b) \o Repeat(" ", t) :
        l \in 0..MaxPad, b \in QueryBodies, t \in 0..MaxPad}

NoCount == -1

\* !query || query.trim().length === 0
queryBlank(query) == query = MissingQuery \/ query = <<>> \/ Len(trim(query)) = 0

queryTooLongInclusive(query) == Len(query) >= MaxQueryLength

\* query.length > 100
queryTooLong(query) == Len(query) > MaxQueryLength

InitSr ==
    srLast = [query |-> MissingQuery, status |-> 0, results |-> <<>>,
              count |-> NoCount, called |-> FALSE, threw |-> FALSE]

\* GET; searchImages, if it is called, throws or returns n images
SearchGet(query, throws, n) ==
    srLast' =
        IF queryBlank(query) \/ queryTooLong(query)
        THEN [query |-> query, status |-> 400, results |-> <<>>,
              count |-> NoCount, called |-> FALSE, threw |-> FALSE]
        ELSE IF throws
        THEN [query |-> query, status |-> 500, results |-> <<>>,
              count |-> NoCount, called |-> TRUE, threw |-> TRUE]
        ELSE [query |-> query, status |-> 200, results |-> [k \in 1..n |-> k],
              count |-> n, called |-> TRUE, threw |-> FALSE]

NextSr ==
    \E query \in Queries \cup {MissingQuery}, throws \in BOOLEAN, n \in 0..MaxResults :
        SearchGet(query, throws, n) /\ UNCHANGED notSrVars

\* C17: a missing, empty or whitespace-only q and a q of more than 100
\* characters get status 400 with results [] without a call of
\* searchImages; a throwing searchImages gets 500 with results []; every
\* other request gets 200 with count equal to the number of results.
ThmSearchRoute ==
    LET q == srLast.query
        rejected == \/ q = MissingQuery
                    \/ \A i \in DOMAIN q : q[i] = " "
                    \/ Len(q) > 100
    IN  srLast.status # 0 =>
          IF rejected
          THEN srLast.status = 400 /\ srLast.results = <<>> /\ ~srLast.called
          ELSE /\ srLast.called
               /\ IF srLast.threw
                  THEN srLast.status = 500 /\ srLast.results = <<>>
                  ELSE srLast.status = 200 /\ srLast.count = Len(srLast.results)

\* a query of exactly 100 characters with spaces at both ends is searched
\* and two results are counted
WitSearchRoute ==
    /\ Len(srLast.query) = 100
    /\ srLast.query[1] = " " /\ srLast.query[100] = " "
    /\ srLast.status = 200
    /\ srLast.count = 2
    /\ Len(srLast.results) = 2

\* =====================================================================
\* faster-site ingestFromUnsplash: Unsplash, S3 and the images table
\* =====================================================================
\* SEARCH_CATEGORIES, by slug
SEARCH_CATEGORIES == <<"nature", "architecture", "technology", "business", "art">>

\* the categories of a run of the model: the first MaxCategories
RunCategories == 1..MaxCategories

IMAGES_PER_CATEGORY == 20

\* the byte strings a download can give
Contents == {"a", "b", "kot", "bwma"}

\* createHash('md5').update(content).digest('hex') of these byte strings
md5Hex(content) ==
    CASE content = "a" -> <<"0", "c", "c", "1", "7", "5", "b", "9", "c", "0", "f", "1", "b", "6", "a", "8", "3", "1", "c", "3", "9", "9", "e", "2", "6", "9", "7", "7", "2", "6", "6", "1">>
      [] content = "b" -> <<"9", "2", "e", "b", "5", "f", "f", "e", "e", "6", "a", "e", "2", "f", "e", "c", "3", "a", "d", "7", "1", "c", "7", "7", "7", "5", "3", "1", "5", "7", "8", "f">>
      [] content = "kot" -> <<"a", "9", "8", "6", "d", "9", "e", "e", "7", "8", "5", "f", "7", "b", "5", "f", "d", "d", "6", "8", "b", "b", "5", "b", "8", "6", "e", "e", "7", "0", "e", "0">>
      [] content = "bwma" -> <<"a", "9", "8", "6", "d", "9", "e", "e", "1", "4", "0", "c", "5", "a", "c", "b", "f", "0", "d", "5", "1", "c", "0", "0", "b", "c", "5", "a", "7", "8", "1", "0">>

\* generateImageHash: .substring(0, 8) of the hex digest
generateImageHash(content) == SubSeq(md5Hex(content), 1, 8)

\* the last element of originalFilename.split('.'), 'jpg' if it is empty
RECURSIVE lastPart(_)
lastPart(name) ==
    IF name = <<>> \/ name[Len(name)] = "." THEN <<>>
    ELSE Append(lastPart(SubSeq(name, 1, Len(name) - 1)), name[Len(name)])

extension(originalFilename) ==
    IF lastPart(originalFilename) = <<>> THEN <<"j", "p", "g">>
    ELSE lastPart(originalFilename)

\* `images/${contentHash}.${extension}`
s3KeyOf(contentHash, originalFilename) ==
    <<"i", "m", "a", "g", "e", "s", "/">> \o contentHash \o <<".">>
        \o extension(originalFilename)

\* `${unsplashImage.id}.jpg`
filenameOf(id) == id \o <<".", "j", "p", "g">>

\* the photos Unsplash can list: id and the bytes its download gives; the
\* first and the third have the same bytes
Photos ==
    {[id |-> <<"p", "1">>, content |-> "a"],
     [id |-> <<"p", "2">>, content |-> "b"],
     [id |-> <<"p", "3">>, content |-> "a"],
     [id |-> <<"p", "4">>, content |-> "kot"],
     [id |-> <<"p", "5">>, content |-> "bwma"]}

\* where an image's processing throws
ImageFailures == {"none", "register", "download", "upload", "insert"}

\* where the clearing and the creation of the categories throw
SetupFailures == {"none", "delete-images", "delete-categories", "insert-categories"}

uniqueViolationNever(table, contentHash) == FALSE

\* contentHash ... .unique(), uniqueIndex('content_hash_idx')
uniqueViolation(table, contentHash) ==
    \E row \in table : row.contentHash = contentHash

rethrown(position) == [position EXCEPT !.stage = "done", !.threw = TRUE]

\* catch (error) { console.error(...) }: the loop goes on
caught(position) == position

\* the category after category c, or the final count
nextCategory(c) ==
    IF c < MaxCategories
    THEN [stage |-> "search", cat |-> c + 1, idx |-> 0, threw |-> FALSE]
    ELSE [stage |-> "count", cat |-> c, idx |-> 0, threw |-> FALSE]

\* i++ in the loop over Math.min(results.length, IMAGES_PER_CATEGORY)
nextImage(c, i, length) ==
    IF i + 1 < Min(length, IMAGES_PER_CATEGORY)
    THEN [stage |-> "image", cat |-> c, idx |-> i + 1, threw |-> FALSE]
    ELSE nextCategory(c)

NoResult == [kind |-> "none"]

Thrown == [kind |-> "threw"]

ErrorsUp(n) == IF n < MaxErrors THEN n + 1 ELSE n

\* before a run: the row, the category and the object of an earlier run
InitIn ==
    /\ inStage = "idle"
    /\ inCat = 0
    /\ inIdx = 0
    /\ inLength = 0
    /\ imagesTable = {[contentHash |-> generateImageHash("b"),
                        s3Key |-> s3KeyOf(generateImageHash("b"), filenameOf(<<"p", "2">>)),
                        unsplashId |-> <<"p", "2">>]}
    /\ categoriesTable = {SEARCH_CATEGORIES[1]}
    /\ s3Objects = {[key |-> s3KeyOf(generateImageHash("b"), filenameOf(<<"p", "2">>)),
                     body |-> "b"]}
    /\ inErrors = 0
    /\ inLast = [step |-> "none"]
    /\ inResult = NoResult

\* ingestFromUnsplash is called: clear the tables, create the categories
IngestStart(failAt) ==
    /\ inStage = "idle"
    /\ imagesTable' = IF failAt = "delete-images" THEN imagesTable ELSE {}
    /\ categoriesTable' =
          IF failAt = "none" THEN {SEARCH_CATEGORIES[c] : c \in RunCategories}
          ELSE IF failAt = "delete-images" THEN categoriesTable
          ELSE {}
    /\ inLast' = [step |-> "setup", threw |-> failAt # "none", logged |-> FALSE]
    /\ IF failAt = "none"
       THEN /\ inStage' = "search"
            /\ inCat' = 1
            /\ inResult' = NoResult
       ELSE /\ inStage' = "done"
            /\ inCat' = 0
            /\ inResult' = Thrown
    /\ UNCHANGED <<inIdx, inLength, s3Objects, inErrors>>

\* unsplash.searchPhotos(category.searchTerm, IMAGES_PER_CATEGORY): it
\* throws or gives length results
SearchPhotos(ok, length) ==
    LET next == IF ~ok THEN caught(nextCategory(inCat))
                ELSE IF Min(length, IMAGES_PER_CATEGORY) > 0
                THEN [stage |-> "image", cat |-> inCat, idx |-> 0, threw |-> FALSE]
                ELSE nextCategory(inCat)
    IN  /\ inStage = "search"
        /\ inStage' = next.stage
        /\ inCat' = next.cat
        /\ inIdx' = next.idx
        /\ inLength' = IF ok THEN length ELSE 0
        /\ inErrors' = IF ok THEN inErrors ELSE ErrorsUp(inErrors)
        /\ inLast' = [step |-> "search", threw |-> ~ok, logged |-> ~ok]
        /\ inResult' = IF next.threw THEN Thrown ELSE NoResult
        /\ UNCHANGED <<imagesTable, categoriesTable, s3Objects>>

ImageCallsDownloadFirst == <<"download", "register", "upload", "insert">>

\* the awaited calls of one pass of the image loop, in program order:
\* unsplash.registerDownload, unsplash.downloadImage, s3Client.uploadImage,
\* db.insert(images)
ImageCalls == <<"register", "download", "upload", "insert">>

\* the calls a pass makes when failAt throws: each call is awaited before the
\* next one starts, so a throw skips the rest of the try block
callsMade(failAt) ==
    IF failAt = "none" THEN ImageCalls
    ELSE LET at == CHOOSE k \in 1..Len(ImageCalls) : ImageCalls[k] = failAt
         IN  SubSeq(ImageCalls, 1, at)

\* the call was made and did not throw
returned(calls, failAt, call) ==
    call # failAt /\ \E k \in 1..Len(calls) : calls[k] = call

\* one pass of the loop over the images, photo being searchResults.results[i]:
\* register, download, upload, insert
ProcessImage(photo, failAt) ==
    LET originalFilename == filenameOf(photo.id)
        contentHash == generateImageHash(photo.content)
        s3Key == s3KeyOf(contentHash, originalFilename)
        calls == callsMade(failAt)
        uploaded == returned(calls, failAt, "upload")
        rejected == uploaded /\ uniqueViolation(imagesTable, contentHash)
        threw == failAt # "none" \/ rejected
        row == [contentHash |-> contentHash, s3Key |-> s3Key, unsplashId |-> photo.id]
        next == IF threw THEN caught(nextImage(inCat, inIdx, inLength))
                ELSE nextImage(inCat, inIdx, inLength)
    IN  /\ inStage = "image"
        /\ s3Objects' = IF uploaded
                        THEN {o \in s3Objects : o.key # s3Key}
                                 \cup {[key |-> s3Key, body |-> photo.content]}
                        ELSE s3Objects
        /\ imagesTable' = IF threw THEN imagesTable ELSE imagesTable \cup {row}
        /\ inErrors' = IF threw THEN ErrorsUp(inErrors) ELSE inErrors
        /\ inLast' = [step |-> "image", threw |-> threw, logged |-> threw,
                      uploaded |-> uploaded, rejected |-> rejected, photo |-> photo,
                      calls |-> calls, failAt |-> failAt]
        /\ inStage' = next.stage
        /\ inCat' = next.cat
        /\ inIdx' = next.idx
        /\ inResult' = IF next.threw THEN Thrown ELSE NoResult
        /\ UNCHANGED <<inLength, categoriesTable>>

\* the two final selects and the summary that is returned
FinalCount(ok) ==
    /\ inStage = "count"
    /\ inStage' = "done"
    /\ inLast' = [step |-> "count", threw |-> ~ok, logged |-> FALSE]
    /\ inResult' = IF ok
                   THEN [kind |-> "returned", success |-> TRUE,
                         categories |-> Cardinality(categoriesTable),
                         images |-> Cardinality(imagesTable)]
                   ELSE Thrown
    /\ UNCHANGED <<inCat, inIdx, inLength, imagesTable, categoriesTable,
                   s3Objects, inErrors>>

NextIn ==
    \/ \E failAt \in SetupFailures : IngestStart(failAt) /\ UNCHANGED notInVars
    \/ \E ok \in BOOLEAN, length \in 0..MaxPhotos :
          SearchPhotos(ok, length) /\ UNCHANGED notInVars
    \/ \E photo \in Photos, failAt \in ImageFailures :
          ProcessImage(photo, failAt) /\ UNCHANGED notInVars
    \/ \E ok \in BOOLEAN : FinalCount(ok) /\ UNCHANGED notInVars

\* a step that processes an image, and one that searches a category
ImageStep == inStage = "image" /\ inLast'.step = "image"

SearchStep == inStage = "search" /\ inLast'.step = "search"

\* C18: an image whose processing fails is logged and the loop goes on with
\* the next image, a category whose search fails is logged and the loop
\* goes on with the next category, and the run still returns success: true
\* with the counts of the tables; only a failure of the clearing and
\* category creation or of the final counts is thrown to the caller.
ThmLogAndContinue ==
    [][/\ (ImageStep /\ inLast'.threw) =>
              /\ inLast'.logged
              /\ imagesTable' = imagesTable
              /\ inResult' = NoResult
              /\ \/ inStage' = "image" /\ inCat' = inCat /\ inIdx' = inIdx + 1
                 \/ inStage' = "search" /\ inCat' = inCat + 1
                 \/ inStage' = "count"
       /\ (SearchStep /\ inLast'.threw) =>
              /\ inLast'.logged
              /\ inResult' = NoResult
              /\ \/ inStage' = "search" /\ inCat' = inCat + 1
                 \/ inStage' = "count"
       /\ inResult' = Thrown => inLast'.step \in {"setup", "count"} /\ inLast'.threw
       /\ (inStage = "count" /\ ~inLast'.threw) =>
              inResult' = [kind |-> "returned", success |-> TRUE,
                           categories |-> Cardinality(categoriesTable),
                           images |-> Cardinality(imagesTable)]]_vars

\* a run with failures on the way has returned success: true with the one
\* image that is in the table
WitLogAndContinue ==
    /\ inStage = "done"
    /\ inResult.kind = "returned"
    /\ inResult.success
    /\ inResult.images = 1
    /\ inErrors >= 1

Hex == {"0", "1", "2", "3", "4", "5", "6", "7", "8", "9", "a", "b", "c", "d", "e", "f"}

\* C20: the images table never holds two rows with one contentHash; an
\* image with the bytes of an image that is stored gets the same hash of 8
\* hex digits and the same key images/<hash>.<ext>, and when its insert is
\* reached it is rejected and logged and the table stays as it is.
ThmContentHashDedup ==
    [][/\ \A r1, r2 \in imagesTable' : r1.contentHash = r2.contentHash => r1 = r2
       /\ (ImageStep /\ inLast'.uploaded) =>
             LET contentHash == generateImageHash(inLast'.photo.content)
                 s3Key == s3KeyOf(contentHash, filenameOf(inLast'.photo.id))
             IN  /\ Len(contentHash) = 8
                 /\ \A k \in 1..8 : contentHash[k] \in Hex
                 /\ [key |-> s3Key, body |-> inLast'.photo.content] \in s3Objects'
                 /\ \A row \in imagesTable :
                       [key |-> row.s3Key, body |-> inLast'.photo.content] \in s3Objects =>
                           /\ contentHash = row.contentHash
                           /\ s3Key = row.s3Key
                           /\ s3Key = <<"i", "m", "a", "g", "e", "s", "/">>
                                  \o row.contentHash \o <<".", "j", "p", "g">>
                           /\ inLast'.rejected
                           /\ inLast'.logged
                           /\ imagesTable' = imagesTable]_vars

\* the third photo, with the bytes of the first, has been rejected and the
\* table holds the first photo's row only
WitContentHashDedup ==
    /\ inLast.step = "image"
    /\ inLast.rejected
    /\ inLast.photo = [id |-> <<"p", "3">>, content |-> "a"]
    /\ \E row \in imagesTable : row.unsplashId = <<"p", "1">>
    /\ \A row \in imagesTable : row.unsplashId # <<"p", "3">>
    /\ Cardinality(imagesTable) = 1

\* positions of a call among the calls of the last pass
CallsOf(call) == {k \in 1..Len(inLast'.calls) : inLast'.calls[k] = call}

\* the call of the last pass at position k returned without throwing
Succeeded(k) == inLast'.calls[k] # inLast'.failAt

\* C22: every pass of the image loop calls registerDownload exactly once
\* and before the bytes are downloaded; the upload to S3 comes only after a
\* download that succeeded and the row is inserted only after an upload that
\* succeeded, so every row of the images table has its object in S3.
ThmIngestOrdering ==
    [][/\ ImageStep =>
             /\ Cardinality(CallsOf("register")) = 1
             /\ \A d \in CallsOf("download") :
                    \E r \in CallsOf("register") : r < d /\ Succeeded(r)
             /\ \A u \in CallsOf("upload") :
                    \E d \in CallsOf("download") : d < u /\ Succeeded(d)
             /\ \A i \in CallsOf("insert") :
                    \E u \in CallsOf("upload") : u < i /\ Succeeded(u)
             /\ imagesTable' # imagesTable =>
                    /\ CallsOf("insert") # {}
                    /\ inLast'.uploaded
                    /\ \A row \in imagesTable' \ imagesTable :
                           [key |-> row.s3Key, body |-> inLast'.photo.content]
                               \in s3Objects'
             /\ s3Objects' # s3Objects => CallsOf("upload") # {}
       /\ \A row \in imagesTable' : \E o \in s3Objects' : o.key = row.s3Key
      ]_vars

\* a run has stored a row after all four calls, and a later pass has stopped
\* at its download
WitIngestOrdering ==
    /\ inLast.step = "image"
    /\ inLast.calls = <<"register", "download">>
    /\ inLast.threw
    /\ \E row \in imagesTable : row.unsplashId = <<"p", "1">>
    /\ inStage = "count"

\* =====================================================================
\* unsplash-faster ingestion script: unsplashFetch and its loops
\* =====================================================================
\* count of each entry of the script's SEARCH_CATEGORIES
ScriptCounts == <<50, 40, 30, 40, 40>>

\* per_page is at most 30, pagesNeeded = Math.ceil(category.count / 30)
PerPage == 30

pagesNeeded(c) == ceilDiv(ScriptCounts[c], PerPage)

\* the answers to a search request: ok, rate limit, another error status
Statuses == {200, 403, 500}

AttemptsUp(n) == IF n < MaxAttempts THEN n + 1 ELSE n

\* the page loop and the category loop: the request that comes after page
\* p of category c, with n images of the category ingested
afterPage(c, p, n) ==
    IF p + 1 <= pagesNeeded(c) /\ n < ScriptCounts[c]
    THEN [stage |-> "fetch", cat |-> c, page |-> p + 1, ingested |-> n]
    ELSE IF c < Len(ScriptCounts)
    THEN [stage |-> "fetch", cat |-> c + 1, page |-> 1, ingested |-> 0]
    ELSE [stage |-> "done", cat |-> c, page |-> p, ingested |-> n]

\* the catch of the category loop: on to the next category
afterCategoryError(c, p, n) ==
    IF c < Len(ScriptCounts)
    THEN [stage |-> "fetch", cat |-> c + 1, page |-> 1, ingested |-> 0]
    ELSE [stage |-> "done", cat |-> c, page |-> p, ingested |-> n]

InitSc ==
    /\ scStage = "idle"
    /\ scCat = 0
    /\ scPage = 0
    /\ scIngested = 0
    /\ scPending = 0
    /\ scRequests = 0

\* ingestImages starts: clear the tables, create the categories
ScriptStart(ok) ==
    /\ scStage = "idle"
    /\ scStage' = IF ok THEN "fetch" ELSE "done"
    /\ scCat' = IF ok THEN 1 ELSE 0
    /\ scPage' = IF ok THEN 1 ELSE 0
    /\ UNCHANGED <<scIngested, scPending, scRequests>>

\* unsplashFetch('/search/photos', params) is called by the page loop
UnsplashFetch ==
    /\ scStage = "fetch"
    /\ scStage' = "requesting"
    /\ scRequests' = 1
    /\ UNCHANGED <<scCat, scPage, scIngested, scPending>>

\* the response: 200 with n results, 403 (wait 60 seconds), or an error
\* that is thrown to the catch of the category loop
FetchResponds(status, n) ==
    LET next == IF status = 200
                THEN IF n > 0
                     THEN [stage |-> "images", cat |-> scCat, page |-> scPage,
                           ingested |-> scIngested]
                     ELSE afterPage(scCat, scPage, scIngested)
                ELSE IF status = 403
                THEN [stage |-> "waiting", cat |-> scCat, page |-> scPage,
                      ingested |-> scIngested]
                ELSE afterCategoryError(scCat, scPage, scIngested)
    IN  /\ scStage = "requesting"
        /\ scStage' = next.stage
        /\ scCat' = next.cat
        /\ scPage' = next.page
        /\ scIngested' = next.ingested
        /\ scPending' = IF status = 200 THEN n ELSE 0
        /\ scRequests' = IF next.stage = "waiting" THEN scRequests ELSE 0

\* the 60 seconds are over: return unsplashFetch(endpoint, params)
RateLimitWaitOver ==
    /\ scStage = "waiting"
    /\ scStage' = "requesting"
    /\ scRequests' = AttemptsUp(scRequests)
    /\ UNCHANGED <<scCat, scPage, scIngested, scPending>>

\* one pass of the loop over the results of the page
ScriptImage(ok) ==
    LET broke == scIngested >= ScriptCounts[scCat]
        ingested == IF ok /\ ~broke THEN scIngested + 1 ELSE scIngested
        pending == IF broke THEN 0 ELSE scPending - 1
        next == IF pending > 0
                THEN [stage |-> "images", cat |-> scCat, page |-> scPage,
                      ingested |-> ingested]
                ELSE afterPage(scCat, scPage, ingested)
    IN  /\ scStage = "images"
        /\ scStage' = next.stage
        /\ scCat' = next.cat
        /\ scPage' = next.page
        /\ scIngested' = next.ingested
        /\ scPending' = pending
        /\ UNCHANGED scRequests

NextSc ==
    \/ \E ok \in BOOLEAN : ScriptStart(ok) /\ UNCHANGED notScVars
    \/ UnsplashFetch /\ UNCHANGED notScVars
    \/ \E status \in Statuses, n \in 0..MaxPageResults :
          FetchResponds(status, n) /\ UNCHANGED notScVars
    \/ RateLimitWaitOver /\ UNCHANGED notScVars
    \/ \E ok \in BOOLEAN : ScriptImage(ok) /\ UNCHANGED notScVars

\* C19: no request that has failed is issued again: every search request
\* of a run is sent at most once.
CexNoRetry == scRequests <= 1

\* ---------------------------------------------------------------------------
\* faster-site ImageGrid and ImageCard: loading strategy by grid position
\* ---------------------------------------------------------------------------

MaxCards == 14

EagerCount == 12
PriorityCount == 6
EagerQuality == 80
LazyQuality == 65

NoCard == [index |-> -1]

isEagerInclusive(index) == index <= EagerCount

\* const isEager = index < 12
isEager(index) == index < EagerCount

\* const isPriority = priority && index < 6
isPriority(priority, index) == priority /\ index < PriorityCount

\* the props ImageCard passes to next/image
ImageCard(index, priority) ==
    [index    |-> index,
     loading  |-> IF isEager(index) THEN "eager" ELSE "lazy",
     priority |-> isPriority(priority, index),
     quality  |-> IF isEager(index) THEN EagerQuality ELSE LazyQuality]

\* images.map((image, index) => <ImageCard index={index} priority={index < 6} />)
ImageGrid(index) == ImageCard(index, index < PriorityCount)

InitIc ==
    /\ icLength = 0
    /\ icIndex = 0
    /\ icCard = NoCard

\* a page renders <ImageGrid images={images} />
RenderGrid(length) ==
    /\ icLength' = length
    /\ icIndex' = 0
    /\ icCard' = NoCard

\* map reaches the next image
RenderCard ==
    /\ icIndex < icLength
    /\ icCard' = ImageGrid(icIndex)
    /\ icIndex' = icIndex + 1
    /\ UNCHANGED icLength

NextIc ==
    \/ (\E length \in 0..MaxCards : RenderGrid(length)) /\ UNCHANGED notIcVars
    \/ RenderCard /\ UNCHANGED notIcVars

\* C21: a card at grid index i has priority exactly when i < 6, loading
\* "eager" exactly when i < 12 and "lazy" otherwise, quality 80 exactly when
\* i < 12 and 65 otherwise.
ThmLoadingStrategy ==
    icCard # NoCard =>
        /\ icCard.index = icIndex - 1
        /\ icCard.priority = TRUE <=> icCard.index < 6
        /\ icCard.loading = "eager" <=> icCard.index < 12
        /\ icCard.loading \in {"eager", "lazy"}
        /\ icCard.quality = 80 <=> icCard.index < 12
        /\ icCard.quality \in {80, 65}

\* the thirteenth card, the first lazy one, has been rendered
WitLoadingStrategy ==
    /\ icCard # NoCard
    /\ icCard.index = 12
    /\ icCard.loading = "lazy"
    /\ icCard.quality = 65
    /\ ~icCard.priority

\* =====================================================================
\* unsplash-faster ingestFromUnsplash: pages of search results per category
\* =====================================================================
\* SEARCH_CATEGORIES[c].count; the script of the README has the same list
categoryCount(c) == ScriptCounts[c]

\* numbers of results Unsplash may hold for a search term
Available == {20, 60, 100}

\* GET /search/photos?query&per_page&page answers with the results at the
\* ranks (page - 1) * per_page + 1 .. page * per_page of the term's ranking
unsplashPage(available, perPage, page) ==
    [first |-> (page - 1) * perPage + 1, last |-> Min(page * perPage, available)]

\* Math.min(30, category.count - categoryIngested)
perPageOf(c, categoryIngested) == Min(PerPage, categoryCount(c) - categoryIngested)

\* unsplashId ... .unique(): the photo of a category is known by its rank
unsplashIdStored(table, c, rank) == <<c, rank>> \in table

\* the page loop's condition with this page and this categoryIngested
pageLoop(c, page, categoryIngested) ==
    IF page <= pagesNeeded(c) /\ categoryIngested < categoryCount(c)
    THEN "search" ELSE "completed"

\* the category loop after category c
categoryLoop(c) ==
    IF c < Len(ScriptCounts) THEN [stage |-> "search", cat |-> c + 1]
    ELSE [stage |-> "count", cat |-> c]

InitUi ==
    /\ uiStage = "idle"
    /\ uiCat = 0
    /\ uiPage = 0
    /\ uiCategoryIngested = 0
    /\ uiTotalIngested = 0
    /\ uiAvailable = 0
    /\ uiNext = 0
    /\ uiLastRank = 0
    /\ uiTable = {}
    /\ uiFailures = 0
    /\ uiResult = NoResult

\* Step 1: clear both tables and create the categories
UiStart(ok) ==
    /\ uiStage \in {"idle", "done"}
    /\ uiTable' = IF ok THEN {} ELSE uiTable
    /\ uiStage' = IF ok THEN "search" ELSE "done"
    /\ uiCat' = IF ok THEN 1 ELSE 0
    /\ uiPage' = IF ok THEN 1 ELSE 0
    /\ uiResult' = IF ok THEN NoResult ELSE Thrown
    /\ uiFailures' = IF ok THEN 0 ELSE 1
    /\ uiCategoryIngested' = 0
    /\ uiTotalIngested' = 0
    /\ uiAvailable' = 0
    /\ uiNext' = 0
    /\ uiLastRank' = 0

\* unsplash.searchPhotos(category.searchTerm, per_page, page)
UiSearch(ok, available) ==
    LET results == unsplashPage(available, perPageOf(uiCat, uiCategoryIngested), uiPage)
        next == categoryLoop(uiCat)
    IN  /\ uiStage = "search"
        /\ ok \/ uiFailures < MaxErrors
        /\ uiPage > 1 => available = uiAvailable
        /\ uiAvailable' = available
        /\ IF ~ok
           THEN /\ uiStage' = next.stage
                /\ uiCat' = next.cat
                /\ uiPage' = 1
                /\ uiCategoryIngested' = 0
                /\ uiFailures' = ErrorsUp(uiFailures)
                /\ UNCHANGED <<uiNext, uiLastRank>>
           ELSE /\ uiStage' = IF results.first <= results.last THEN "image"
                              ELSE pageLoop(uiCat, uiPage + 1, uiCategoryIngested)
                /\ uiPage' = IF results.first <= results.last THEN uiPage ELSE uiPage + 1
                /\ uiNext' = results.first
                /\ uiLastRank' = results.last
                /\ UNCHANGED <<uiCat, uiCategoryIngested, uiFailures>>
        /\ UNCHANGED <<uiTotalIngested, uiTable, uiResult>>

\* one pass of the loop over searchResults.results: register the download
\* and insert the row
UiImage(ok) ==
    LET broke == uiCategoryIngested >= categoryCount(uiCat)
        stored == ~broke /\ ok /\ ~unsplashIdStored(uiTable, uiCat, uiNext)
        ingested == IF stored THEN uiCategoryIngested + 1 ELSE uiCategoryIngested
        more == ~broke /\ uiNext < uiLastRank
    IN  /\ uiStage = "image"
        /\ ok \/ uiFailures < MaxErrors
        /\ uiTable' = IF stored THEN uiTable \cup {<<uiCat, uiNext>>} ELSE uiTable
        /\ uiCategoryIngested' = ingested
        /\ uiTotalIngested' = IF stored THEN uiTotalIngested + 1 ELSE uiTotalIngested
        /\ uiFailures' = IF ~broke /\ ~ok THEN ErrorsUp(uiFailures) ELSE uiFailures
        /\ uiNext' = IF more THEN uiNext + 1 ELSE uiNext
        /\ uiStage' = IF more THEN "image" ELSE pageLoop(uiCat, uiPage + 1, ingested)
        /\ uiPage' = IF more THEN uiPage ELSE uiPage + 1
        /\ UNCHANGED <<uiCat, uiAvailable, uiLastRank, uiResult>>

\* "Completed category": on to the next one
UiCompleted ==
    LET next == categoryLoop(uiCat)
    IN  /\ uiStage = "completed"
        /\ uiStage' = next.stage
        /\ uiCat' = next.cat
        /\ uiPage' = 1
        /\ uiCategoryIngested' = 0
        /\ UNCHANGED <<uiTotalIngested, uiAvailable, uiNext, uiLastRank, uiTable,
                       uiFailures, uiResult>>

\* the final selects and the summary
UiFinal(ok) ==
    /\ uiStage = "count"
    /\ uiStage' = "done"
    /\ uiResult' = IF ok
                   THEN [kind |-> "returned", success |-> TRUE,
                         categories |-> Len(ScriptCounts),
                         images |-> Cardinality(uiTable)]
                   ELSE Thrown
    /\ UNCHANGED <<uiCat, uiPage, uiCategoryIngested, uiTotalIngested, uiAvailable,
                   uiNext, uiLastRank, uiTable, uiFailures>>

NextUi ==
    \/ (\E ok \in BOOLEAN : UiStart(ok)) /\ UNCHANGED notUiVars
    \/ (\E ok \in BOOLEAN, available \in Available : UiSearch(ok, available))
           /\ UNCHANGED notUiVars
    \/ (\E ok \in BOOLEAN : UiImage(ok)) /\ UNCHANGED notUiVars
    \/ UiCompleted /\ UNCHANGED notUiVars
    \/ (\E ok \in BOOLEAN : UiFinal(ok)) /\ UNCHANGED notUiVars

\* C23: a category whose term has at least count results and whose requests
\* all succeed is completed with exactly count images stored (50, 40, 30,
\* 40, 40, which makes 200).
CexReachesTargets ==
    (uiStage = "completed" /\ uiFailures = 0 /\ uiAvailable >= categoryCount(uiCat))
        => /\ uiCategoryIngested = categoryCount(uiCat)
           /\ Cardinality({row \in uiTable : row[1] = uiCat}) = categoryCount(uiCat)

\* =====================================================================
\* unsplash-faster script addArchitectureImages
\* =====================================================================
\* const targetCount = 50
targetCount == 50

\* ranks of the photo whose registerDownload fails during a run; 0: none
FailingRanks == {0, 25, 35}

imageExistsNever(table, unsplashId) == FALSE

\* db.select().from(categories).where(eq(categories.slug, slug)) has rows
categoryExists(table, slug) == \E row \in table : row.slug = slug

\* db.select().from(images).where(eq(images.unsplashId, id)) has rows
imageExists(table, unsplashId) == \E row \in table : row.unsplashId = unsplashId

\* serial PRIMARY KEY: the next id of a table
serial(table) == Cardinality(table) + 1

\* the page loop's condition with this page and this totalIngested
pageLoopAa(page, totalIngested) ==
    IF page <= ceilDiv(targetCount, PerPage) /\ totalIngested < targetCount
    THEN "search" ELSE "summary"

InitAa ==
    /\ aaStage = "idle"
    /\ aaPage = 0
    /\ aaTotalIngested = 0
    /\ aaAvailable = 0
    /\ aaFailing = 0
    /\ aaNext = 0
    /\ aaLastRank = 0
    /\ aaCategories = {[id |-> 1, slug |-> "nature"]}
    /\ aaImages = {}
    /\ aaRowsBefore = 0
    /\ aaEarlier = FALSE
    /\ aaClean = TRUE
    /\ aaLast = [step |-> "none"]

\* the script is started; Unsplash's ranking for the term stays as the first
\* run found it
AaStart(available, failing) ==
    /\ aaStage \in {"idle", "done"}
    /\ aaAvailable # 0 => available = aaAvailable
    /\ aaStage' = "category"
    /\ aaAvailable' = available
    /\ aaFailing' = failing
    /\ aaEarlier' = (aaStage = "done" /\ aaClean /\ aaLast.step = "summary")
    /\ aaClean' = TRUE
    /\ aaRowsBefore' = Cardinality(aaImages)
    /\ aaTotalIngested' = 0
    /\ aaPage' = 0
    /\ aaNext' = 0
    /\ aaLastRank' = 0
    /\ aaLast' = [step |-> "start"]
    /\ UNCHANGED <<aaCategories, aaImages>>

\* Step 1: get or create the architecture category
AaCategory(ok) ==
    LET exists == categoryExists(aaCategories, "architecture")
        row == [id |-> serial(aaCategories), slug |-> "architecture"]
    IN  /\ aaStage = "category"
        /\ aaCategories' = IF ok /\ ~exists THEN aaCategories \cup {row}
                           ELSE aaCategories
        /\ aaStage' = IF ok THEN pageLoopAa(1, 0) ELSE "done"
        /\ aaPage' = 1
        /\ aaClean' = ok
        /\ aaLast' = [step |-> "category", created |-> ok /\ ~exists, existed |-> exists]
        /\ UNCHANGED <<aaTotalIngested, aaAvailable, aaFailing, aaNext, aaLastRank,
                       aaImages, aaRowsBefore, aaEarlier>>

\* unsplash.searchPhotos(searchTerm, Math.min(30, targetCount - totalIngested), page);
\* a throw reaches the outer catch and ends the run
AaSearch(ok) ==
    LET results == unsplashPage(aaAvailable,
                                Min(PerPage, targetCount - aaTotalIngested), aaPage)
        some == results.first <= results.last
    IN  /\ aaStage = "search"
        /\ aaStage' = IF ~ok THEN "done"
                      ELSE IF some THEN "image"
                      ELSE pageLoopAa(aaPage + 1, aaTotalIngested)
        /\ aaPage' = IF ok /\ ~some THEN aaPage + 1 ELSE aaPage
        /\ aaNext' = IF ok THEN results.first ELSE aaNext
        /\ aaLastRank' = IF ok THEN results.last ELSE aaLastRank
        /\ aaClean' = (aaClean /\ ok)
        /\ aaLast' = [step |-> "search", first |-> results.first, last |-> results.last]
        /\ UNCHANGED <<aaTotalIngested, aaAvailable, aaFailing, aaCategories, aaImages,
                       aaRowsBefore, aaEarlier>>

\* one pass of the loop over searchResults.results
AaImage ==
    LET broke == aaTotalIngested >= targetCount
        duplicate == ~broke /\ imageExists(aaImages, aaNext)
        registered == ~broke /\ ~duplicate
        rejected == \E row \in aaImages : row.unsplashId = aaNext
        threw == registered /\ (aaNext = aaFailing \/ rejected)
        stored == registered /\ ~threw
        row == [id |-> serial(aaImages), unsplashId |-> aaNext]
        ingested == IF stored THEN aaTotalIngested + 1 ELSE aaTotalIngested
        more == ~broke /\ aaNext < aaLastRank
    IN  /\ aaStage = "image"
        /\ aaImages' = IF stored THEN aaImages \cup {row} ELSE aaImages
        /\ aaTotalIngested' = ingested
        /\ aaNext' = IF more THEN aaNext + 1 ELSE aaNext
        /\ aaStage' = IF more THEN "image" ELSE pageLoopAa(aaPage + 1, ingested)
        /\ aaPage' = IF more THEN aaPage ELSE aaPage + 1
        /\ aaClean' = (aaClean /\ ~threw)
        /\ aaLast' = [step |-> "image", rank |-> aaNext, skipped |-> duplicate,
                      registered |-> registered, stored |-> stored, logged |-> threw]
        /\ UNCHANGED <<aaAvailable, aaFailing, aaLastRank, aaCategories, aaRowsBefore,
                       aaEarlier>>

\* Step 3: the two selects of the summary
AaSummary(ok) ==
    /\ aaStage = "summary"
    /\ aaStage' = "done"
    /\ aaClean' = (aaClean /\ ok)
    /\ aaLast' = [step |-> "summary"]
    /\ UNCHANGED <<aaPage, aaTotalIngested, aaAvailable, aaFailing, aaNext, aaLastRank,
                   aaCategories, aaImages, aaRowsBefore, aaEarlier>>

NextAa ==
    \/ (\E available \in Available, failing \in FailingRanks :
           AaStart(available, failing)) /\ UNCHANGED notAaVars
    \/ (\E ok \in BOOLEAN : AaCategory(ok)) /\ UNCHANGED notAaVars
    \/ (\E ok \in BOOLEAN : AaSearch(ok)) /\ UNCHANGED notAaVars
    \/ AaImage /\ UNCHANGED notAaVars
    \/ (\E ok \in BOOLEAN : AaSummary(ok)) /\ UNCHANGED notAaVars

\* slugs and unsplashIds are unique, totalIngested is at most 50
AaInvariants ==
    /\ \A r1, r2 \in aaCategories : r1.slug = r2.slug => r1 = r2
    /\ \A r1, r2 \in aaImages : r1.unsplashId = r2.unsplashId => r1 = r2
    /\ \A r1, r2 \in aaImages : r1.id = r2.id => r1 = r2
    /\ aaTotalIngested <= targetCount
    /\ Cardinality(aaImages) <= aaRowsBefore + aaTotalIngested

\* a run that follows a run without failure has ended without failure
SecondRunDone == aaStage = "done" /\ aaEarlier /\ aaClean /\ aaLast.step = "summary"

\* C24 as stated: slugs and unsplashIds stay unique, totalIngested never
\* exceeds 50, and a second run over the same search results adds no rows.
CexSecondRunAddsNothing ==
    /\ AaInvariants
    /\ SecondRunDone => Cardinality(aaImages) = aaRowsBefore

\* C24, amended: the category is created only when no row has its slug; a
\* result whose unsplashId is stored is skipped before registerDownload and
\* before any insert; slugs and unsplashIds stay unique and totalIngested is
\* at most 50 in every state; a second run adds exactly totalIngested rows,
\* each for a result that was not stored, and none where every result of the
\* pages it requests is stored.
ThmArchitectureRerun ==
    [][/\ AaInvariants'
       /\ aaCategories' # aaCategories =>
              /\ ~\E row \in aaCategories : row.slug = "architecture"
              /\ aaLast'.created
       /\ (aaStage = "category" /\ aaStage' # "done"
              /\ \E row \in aaCategories : row.slug = "architecture")
              => aaLast'.existed /\ ~aaLast'.created
       /\ aaStage = "image" =>
              /\ (\E row \in aaImages : row.unsplashId = aaNext) =>
                     /\ aaLast'.skipped
                     /\ ~aaLast'.registered
                     /\ ~aaLast'.logged
                     /\ aaImages' = aaImages
                     /\ aaTotalIngested' = aaTotalIngested
              /\ aaImages' # aaImages =>
                     /\ ~\E row \in aaImages : row.unsplashId = aaNext
                     /\ \E row \in aaImages' \ aaImages : row.unsplashId = aaNext
                     /\ aaTotalIngested' = aaTotalIngested + 1
       /\ SecondRunDone' =>
              /\ Cardinality(aaImages') = aaRowsBefore' + aaTotalIngested'
              /\ aaAvailable' <= 40 => aaTotalIngested' = 0
      ]_vars

\* a second run has found the category, skipped the results 1..40 and stored
\* the results 41..60
WitArchitectureRerun ==
    /\ SecondRunDone
    /\ aaRowsBefore = 40
    /\ aaTotalIngested = 20
    /\ Cardinality(aaImages) = 60
    /\ Cardinality(aaCategories) = 2

\* =====================================================================
\* GET /api/prefetch-images: dispatch on type, id, category
\* =====================================================================
\* searchParams.get of a parameter the URL does not have
NoParam == "(null)"

\* the images getImages() gives: five of category 1, one of category 2, one
\* without a category
PfImages == <<[id |-> 1, categoryId |-> 1], [id |-> 2, categoryId |-> 1],
              [id |-> 3, categoryId |-> 1], [id |-> 4, categoryId |-> 1],
              [id |-> 5, categoryId |-> 1], [id |-> 6, categoryId |-> 2],
              [id |-> 7, categoryId |-> 0]>>

PfSlugs == [nature |-> 1, city |-> 2]

TypeParams == {NoParam, "categories", "images"}
IdParams == {NoItem, <<>>, <<"0">>, <<"1">>, <<"6">>, <<"7">>, <<"9">>, <<"1", "2">>}
CategoryParams == {NoParam, "", "nature", "city"}
RelatedParams == {NoParam, "true", "1"}
ThrowingCalls == {"none", "getCategories", "getImage", "getImages"}

\* a string or null as a condition
truthy(param) == param # NoParam /\ param # ""

\* Array.prototype.filter
filter(list, Keep(_)) == SelectSeq(list, Keep)

\* getImage(id): the row or null
getImage(id) ==
    IF \E k \in DOMAIN PfImages : PfImages[k].id = id
    THEN PfImages[CHOOSE k \in DOMAIN PfImages : PfImages[k].id = id]
    ELSE [id |-> 0, categoryId |-> 0]

\* getImages(categorySlug)
getImages(categorySlug) ==
    LET OfCategory(img) == img.categoryId = PfSlugs[categorySlug]
    IN  IF ~truthy(categorySlug) THEN PfImages
        ELSE IF categorySlug \in DOMAIN PfSlugs THEN filter(PfImages, OfCategory)
        ELSE <<>>

branchOfCategoryFirst(type, imageId, category) ==
    IF type = "categories" THEN "categories"
    ELSE IF truthy(category) THEN "category"
    ELSE IF Truthy(imageId) THEN "image"
    ELSE "default"

\* the if statements of the handler, in order
branchOf(type, imageId, category) ==
    IF type = "categories" THEN "categories"
    ELSE IF Truthy(imageId) THEN "image"
    ELSE IF truthy(category) THEN "category"
    ELSE "default"

\* related images: the first 3 of the same category that are not the image
relatedImages(image) ==
    LET Related(img) == img.categoryId = image.categoryId /\ img.id # image.id
    IN  slice(filter(getImages(NoParam), Related), 0, 3)

\* the catch block
prefetchFailed == [status |-> 500, kind |-> "error", error |-> "Prefetch failed"]

\* the try block: the response, given the call that throws when it is reached
prefetchResponse(type, imageId, category, relatedParam, throwing) ==
    LET branch == branchOf(type, imageId, category)
        related == relatedParam = "true"
        image == getImage(parseInt(imageId))
    IN  CASE branch = "categories" ->
                 IF throwing = "getCategories" THEN prefetchFailed
                 ELSE [status |-> 200, kind |-> "categories"]
          [] branch = "image" ->
                 IF throwing = "getImage" THEN prefetchFailed
                 ELSE IF image.id = 0
                 THEN [status |-> 404, kind |-> "error", error |-> "Image not found"]
                 ELSE IF related /\ image.categoryId # 0
                 THEN IF throwing = "getImages" THEN prefetchFailed
                      ELSE [status |-> 200, kind |-> "image", image |-> image,
                            related |-> relatedImages(image)]
                 ELSE [status |-> 200, kind |-> "image", image |-> image,
                       related |-> <<>>]
          [] branch = "category" ->
                 IF throwing = "getImages" THEN prefetchFailed
                 ELSE [status |-> 200, kind |-> "listing", category |-> category,
                       images |-> getImages(category)]
          [] OTHER ->
                 IF throwing = "getImages" THEN prefetchFailed
                 ELSE [status |-> 200, kind |-> "listing", category |-> NoParam,
                       images |-> getImages(NoParam)]

InitPf ==
    pfLast = [type |-> NoParam, id |-> NoItem, category |-> NoParam,
              related |-> NoParam, throwing |-> "none",
              response |-> [status |-> 0, kind |-> "none"]]

\* one request (page and limit left at their defaults)
PrefetchGet(type, imageId, category, relatedParam, throwing) ==
    /\ pfLast.response.kind = "none"
    /\ pfLast' = [type |-> type, id |-> imageId, category |-> category,
                  related |-> relatedParam, throwing |-> throwing,
                  response |-> prefetchResponse(type, imageId, category, relatedParam,
                                                throwing)]

\* the response has been sent
PrefetchDone ==
    /\ pfLast.response.kind # "none"
    /\ pfLast' = [type |-> NoParam, id |-> NoItem, category |-> NoParam,
                  related |-> NoParam, throwing |-> "none",
                  response |-> [status |-> 0, kind |-> "none"]]

NextPf ==
    \/ (\E type \in TypeParams, imageId \in IdParams, category \in CategoryParams,
           relatedParam \in RelatedParams, throwing \in ThrowingCalls :
            PrefetchGet(type, imageId, category, relatedParam, throwing))
           /\ UNCHANGED notPfVars
    \/ PrefetchDone /\ UNCHANGED notPfVars

\* the request was answered by the catch block
PfThrew == pfLast.response.status = 500

\* C25: type=categories is answered with the categories whatever else the
\* request carries; otherwise a request with an id is answered about that
\* image and never with a listing: 404 and an error body when no image has
\* the id, else the image with at most 3 related images (only with
\* related=true), all of the image's category and none the image itself;
\* otherwise a category gives that category's listing and anything else the
\* default listing; a thrown error gives status 500.
ThmPrefetchDispatch ==
    LET r == pfLast.response
        hasId == pfLast.id # NoItem /\ pfLast.id # <<>>
        matches == {k \in DOMAIN PfImages : PfImages[k].id = parseInt(pfLast.id)}
    IN  r.kind # "none" =>
        /\ r.status \in {200, 404, 500}
        /\ (pfLast.throwing = "none") => ~PfThrew
        /\ PfThrew => r.kind = "error"
        /\ (pfLast.type = "categories" /\ ~PfThrew) => r.kind = "categories"
        /\ (pfLast.type # "categories" /\ hasId) =>
              /\ r.kind # "listing" /\ r.kind # "categories"
              /\ (matches = {} /\ ~PfThrew) =>
                    r.status = 404 /\ r.kind = "error" /\ r.error = "Image not found"
              /\ (matches # {} /\ ~PfThrew) =>
                    /\ r.status = 200 /\ r.kind = "image"
                    /\ r.image.id = parseInt(pfLast.id)
                    /\ Len(r.related) <= 3
                    /\ \A k \in DOMAIN r.related :
                          /\ r.related[k].categoryId = r.image.categoryId
                          /\ r.related[k].id # r.image.id
                          /\ \E j \in DOMAIN PfImages : PfImages[j] = r.related[k]
                    /\ pfLast.related # "true" => r.related = <<>>
        /\ (pfLast.type # "categories" /\ ~hasId /\ ~PfThrew) =>
              /\ r.kind = "listing"
              /\ r.category =
                    (IF pfLast.category \in {NoParam, ""} THEN NoParam
                     ELSE pfLast.category)
              /\ \A k \in DOMAIN r.images :
                    r.category # NoParam =>
                        r.images[k].categoryId = PfSlugs[r.category]

\* a request with id, category and related=true was answered with image 1
\* and three of the four other images of its category
WitPrefetchDispatch ==
    /\ pfLast.id = <<"1">>
    /\ pfLast.category = "nature"
    /\ pfLast.related = "true"
    /\ pfLast.response.kind = "image"
    /\ Len(pfLast.response.related) = 3
    /\ pfLast.response.related[1].id = 2

\* =====================================================================
\* faster-site S3 variant: signed URLs in results of the cached queries
\* =====================================================================
\* steps of the clock per hour
StepsPerHour == 3

\* the cached queries whose results carry s3Url
UrlQueries == {"getImages", "getImage", "searchImages"}

Unsigned == -2

NotStored == [age |-> NoEntry, urlAge |-> NoEntry]

NotServed == [from |-> "none"]

\* next_unstable_cache with revalidate 2 h: a stored result younger than
\* that is served
storedFresh(entry) ==
    entry # NotStored /\ entry.age < Revalidate * StepsPerHour

\* cached && cached.expires > Date.now(), with expires = signing time + 47 h
urlCacheHit(urlAge) ==
    urlAge # NoEntry /\ urlAge < CACHE_EXPIRES_IN * StepsPerHour

\* the signed URL is accepted by S3
urlValid(urlAge) == urlAge < URL_EXPIRES_IN * StepsPerHour

InitEv ==
    /\ evUrlAge = NoEntry
    /\ evStore = [q \in UrlQueries |-> NotStored]
    /\ evLast = NotServed

\* a request calls the cached query q: the stored result, or the callback,
\* whose rows get their URL from getCachedSecureUrl (or keep the stored s3Url
\* when signing fails)
ServeQuery(q, signOk) ==
    IF storedFresh(evStore[q])
    THEN /\ evLast' = [from |-> "stored", urlAge |-> evStore[q].urlAge]
         /\ UNCHANGED <<evUrlAge, evStore>>
    ELSE LET urlAge == IF urlCacheHit(evUrlAge) THEN evUrlAge
                       ELSE IF signOk THEN 0 ELSE Unsigned
         IN  /\ evUrlAge' = IF urlCacheHit(evUrlAge) \/ ~signOk THEN evUrlAge ELSE 0
             /\ evStore' = [evStore EXCEPT ![q] = [age |-> 0, urlAge |-> urlAge]]
             /\ evLast' = [from |-> "callback", urlAge |-> urlAge]

\* the cleanup interval fires: an expired entry is deleted
EvCleanup ==
    /\ evUrlAge # NoEntry
    /\ ~urlCacheHit(evUrlAge)
    /\ evUrlAge' = NoEntry
    /\ evLast' = NotServed
    /\ UNCHANGED evStore

\* the state of a stored result 20 minutes later; one that has become stale
\* is never served again and is kept as NotStored
olderEntry(entry) ==
    LET older == [age |-> entry.age + 1,
                  urlAge |-> IF entry.urlAge = Unsigned THEN Unsigned
                             ELSE entry.urlAge + 1]
    IN  IF entry # NotStored /\ storedFresh(older) THEN older ELSE NotStored

\* 20 minutes pass; the age of an expired urlCache entry, which is never
\* returned again, stops there
EvTick ==
    /\ evUrlAge' = IF urlCacheHit(evUrlAge) THEN evUrlAge + 1 ELSE evUrlAge
    /\ evStore' = [q \in UrlQueries |-> olderEntry(evStore[q])]
    /\ evLast' = NotServed
    /\ \/ evUrlAge' # evUrlAge
       \/ evStore' # evStore
       \/ evLast # NotServed

NextEv ==
    \/ (\E q \in UrlQueries, signOk \in BOOLEAN : ServeQuery(q, signOk))
           /\ UNCHANGED notEvVars
    \/ EvCleanup /\ UNCHANGED notEvVars
    \/ EvTick /\ UNCHANGED notEvVars

\* C26: every signed s3Url in a result served by getImages, getImage or
\* searchImages, from the data cache or from the callback, is within its 48
\* hours of validity when it is served.
CexServedUrlValid ==
    (evLast # NotServed /\ evLast.urlAge # Unsigned) => urlValid(evLast.urlAge)

\* the page q of the list the last request was about, as the route gives it
PageOf(q) == listingResponse(apiLast.list, q, apiLast.limit).images

RECURSIVE PagesJoined(_)
PagesJoined(q) == IF q = 0 THEN <<>> ELSE PagesJoined(q - 1) \o PageOf(q)

\* C16: the response to page p >= 1 with limit L >= 1 over n images holds
\* exactly the items at the 0-based indexes (p-1)*L .. min(p*L, n)-1 in list
\* order, totalImages = n and totalPages = ceil(n/L); the pages
\* 1..totalPages are pairwise disjoint and joined in order give the list.
ThmListingPagination ==
    LET list == apiLast.list
        n == Len(list)
        L == apiLast.limit
        p == apiLast.page
        last == IF p * L < n THEN p * L ELSE n
        count == IF last > (p - 1) * L THEN last - (p - 1) * L ELSE 0
        t == apiLast.totalPages
    IN  p >= 1 =>
          /\ Len(apiLast.images) = count
          /\ \A k \in 1..count : apiLast.images[k] = list[(p - 1) * L + k]
          /\ apiLast.totalImages = n
          /\ t >= 0 /\ t * L >= n /\ (t - 1) * L < n
          /\ \A q1, q2 \in 1..t : q1 # q2 =>
                \A k1 \in DOMAIN PageOf(q1), k2 \in DOMAIN PageOf(q2) :
                    PageOf(q1)[k1] # PageOf(q2)[k2]
          /\ PagesJoined(t) = list

\* the third and last page of seven images by threes holds the seventh
WitListingPagination ==
    /\ apiLast.page = 3
    /\ apiLast.limit = 3
    /\ apiLast.totalImages = 7
    /\ apiLast.totalPages = 3
    /\ apiLast.images = <<107>>

Init ==
    /\ InitSearch /\ InitCache /\ InitUrl /\ InitView
    /\ InitUf /\ InitFs /\ InitMd /\ InitSb
    /\ InitDq /\ InitApi /\ InitBn /\ InitGw
    /\ InitSr /\ InitIn /\ InitSc
    /\ InitIc
    /\ InitUi
    /\ InitAa
    /\ InitPf
    /\ InitEv

NextSearch ==
    \/ SearchImages /\ UNCHANGED notSearchVars
    \/ SearchReturn /\ UNCHANGED notSearchVars

SpecSearch == Init /\ [][NextSearch]_vars

SpecCache == Init /\ [][NextCache]_vars

SpecUrl == Init /\ [][NextUrl]_vars

SpecView == Init /\ [][NextView]_vars

SpecUf == Init /\ [][NextUf]_vars

SpecFs == Init /\ [][NextFs]_vars

SpecMd == Init /\ [][NextMd]_vars

SpecSb == Init /\ [][NextSb]_vars

SpecDq == Init /\ [][NextDq]_vars

SpecApi == Init /\ [][NextApi]_vars

SpecBn == Init /\ [][NextBn]_vars

SpecGw == Init /\ [][NextGw]_vars

SpecSr == Init /\ [][NextSr]_vars

SpecIn == Init /\ [][NextIn]_vars

SpecSc == Init /\ [][NextSc]_vars


SpecIc == Init /\ [][NextIc]_vars


SpecUi == Init /\ [][NextUi]_vars


SpecAa == Init /\ [][NextAa]_vars


SpecPf == Init /\ [][NextPf]_vars


SpecEv == Init /\ [][NextEv]_vars

====
